---- MODULE Spec2Model ----
(***************************************************************************)
(* Model of pycommon_database/database_mongo.py: the Column / DictColumn / *)
(* ListColumn field hierarchy and the CRUDModel record lifecycle (add,     *)
(* add_all, update, get, remove, _increment) over a Mongo collection.      *)
(*                                                                         *)
(* Python values are tagged records, Python dicts are functions from key   *)
(* strings to values, Python lists are sequences.                          *)
(***************************************************************************)
EXTENDS Integers, Sequences, FiniteSets, TLC

(***************************************************************************)
(* Bounds of the model.                                                    *)
(***************************************************************************)
MaxInserts == 2
MaxCounter == 3
MaxCalls == 1
NumCallers == 3
NumThreads == 3

(***************************************************************************)
(* Python values.                                                          *)
(***************************************************************************)
None == [t |-> "none"]
I(n) == [t |-> "int", i |-> n]
S(s) == [t |-> "str", s |-> s]
D(d) == [t |-> "dict", d |-> d]
L(l) == [t |-> "list", l |-> l]
OID(n) == [t |-> "ObjectId", o |-> n]

EmptyDict == [k \in {} |-> None]

IsNone(value) == value.t = "none"

\* dict.get(key): None when the key is absent
Get(model_as_dict, key) ==
    IF key \in DOMAIN model_as_dict THEN model_as_dict[key] ELSE None

\* dict.pop(key, None) / del dict[key]
Pop(model_as_dict, key) ==
    [k \in (DOMAIN model_as_dict) \ {key} |-> model_as_dict[k]]

\* dict[key] = value
Put(model_as_dict, key, value) ==
    [k \in (DOMAIN model_as_dict) \cup {key} |->
        IF k = key THEN value ELSE model_as_dict[k]]

\* dict.update(other): entries of other override
DictUpdate(model_as_dict, other) ==
    [k \in (DOMAIN model_as_dict) \cup (DOMAIN other) |->
        IF k \in DOMAIN other THEN other[k] ELSE model_as_dict[k]]

\* Python truth value of a value
Truthy(value) ==
    CASE value.t = "none" -> FALSE
      [] value.t = "int" -> value.i # 0
      [] value.t = "str" -> value.s # ""
      [] value.t = "dict" -> DOMAIN value.d # {}
      [] value.t = "list" -> Len(value.l) > 0
      [] OTHER -> TRUE

(***************************************************************************)
(* Key strings.  f'{parent}.{child}' and f'{name}[{index}]' are tables     *)
(* over the key strings the model uses; str.split('.', maxsplit=1) is the  *)
(* inverse of the first table.                                             *)
(***************************************************************************)
DotTable ==
    { <<"d", "a", "d.a">>, <<"d", "b", "d.b">>, <<"d", "", "d.">>,
      <<"l", "a", "l.a">>, <<"l", "b", "l.b">>, <<"l", "", "l.">> }

IndexTable ==
    { <<"l", 0, "l[0]">>, <<"l", 1, "l[1]">>, <<"l", 2, "l[2]">>,
      <<"l", 3, "l[3]">>,
      <<"l.a", 0, "l.a[0]">>, <<"l.a", 1, "l.a[1]">>, <<"l.a", 2, "l.a[2]">>,
      <<"l.a", 3, "l.a[3]">>,
      <<"l.", 0, "l.[0]">>, <<"l.", 1, "l.[1]">>, <<"l.", 2, "l.[2]">>,
      <<"l.", 3, "l.[3]">>,
      <<"a", 0, "a[0]">>, <<"a", 1, "a[1]">>, <<"a", 2, "a[2]">>,
      <<"a", 3, "a[3]">>,
      <<"b", 0, "b[0]">>, <<"b", 1, "b[1]">>, <<"b", 2, "b[2]">>,
      <<"b", 3, "b[3]">>,
      <<"", 0, "[0]">>, <<"", 1, "[1]">>, <<"", 2, "[2]">>, <<"", 3, "[3]">> }

\* f'{parent}.{child}'
DotJoin(parent, child) ==
    (CHOOSE e \in DotTable : e[1] = parent /\ e[2] = child)[3]

\* f'{field_name}[{index}]'
IndexJoin(field_name, index) ==
    (CHOOSE e \in IndexTable : e[1] = field_name /\ e[2] = index)[3]

\* field_name.split('.', maxsplit=1)
Split(field_name) ==
    IF \E e \in DotTable : e[3] = field_name
    THEN LET e == CHOOSE e \in DotTable : e[3] = field_name IN <<e[1], e[2]>>
    ELSE <<field_name>>

(***************************************************************************)
(* The enum type used by enum fields: member name -> member value.         *)
(***************************************************************************)
EnumMembers == [A |-> 1, B |-> 2]

\* enum member names, list(field_type.__members__.keys())
get_choices == DOMAIN EnumMembers

\* f'Value "{value}" is not within {self.get_choices()}.'
NotWithinMessage(value) ==
    CASE value.s = "C" -> "Value \"C\" is not within ['A', 'B']."
      [] OTHER -> "Value is not within ['A', 'B']."

\* f'Not a valid {self.field_type.__name__}.'
NotValidMessage(field_type) ==
    CASE field_type = "str" -> "Not a valid str."
      [] field_type = "int" -> "Not a valid int."
      [] field_type = "dict" -> "Not a valid dict."
      [] field_type = "list" -> "Not a valid list."
      [] field_type = "enum" -> "Not a valid EnumTest."
      [] OTHER -> "Not a valid ObjectId."

\* isinstance(value, field_type); no input is an enum member object
isinstance(value, field_type) ==
    field_type # "enum" /\ value.t = field_type

(***************************************************************************)
(* Column.__init__ and the two composite constructors.  kwargs is a record *)
(* holding the keyword arguments that were given.                          *)
(***************************************************************************)
Kw(kwargs, name, default) ==
    IF name \in DOMAIN kwargs THEN kwargs[name] ELSE default

_update_name(column, name) ==
    [column EXCEPT !.name = name,
                   !.field_type = IF name = "_id" THEN "ObjectId" ELSE @]

Column(field_type, kwargs) ==
    LET default_value == Kw(kwargs, "default_value", None)
        is_primary_key == Kw(kwargs, "is_primary_key", FALSE)
        should_auto_increment == Kw(kwargs, "should_auto_increment", FALSE)
        is_nullable_kw == Kw(kwargs, "is_nullable", TRUE)
        raised ==
            IF should_auto_increment /\ field_type # "int"
            THEN "Only int fields can be auto incremented."
            ELSE IF ~is_nullable_kw /\ should_auto_increment
            THEN "A field cannot be mandatory and auto incremented at the same time."
            ELSE IF ~is_nullable_kw /\ Truthy(default_value)
            THEN "A field cannot be mandatory and having a default value at the same time."
            ELSE ""
        \* truth value of: not is_primary_key or default_value or should_auto_increment
        is_nullable ==
            IF ~is_nullable_kw THEN FALSE
            ELSE ~is_primary_key \/ Truthy(default_value) \/ should_auto_increment
    IN  _update_name(
          [kind |-> "Column",
           name |-> "",
           field_type |-> field_type,
           default_value |-> default_value,
           index_type |-> Kw(kwargs, "index_type", "None"),
           allow_none_as_filter |-> Kw(kwargs, "allow_none_as_filter", FALSE),
           is_primary_key |-> is_primary_key,
           is_nullable |-> is_nullable,
           should_auto_increment |-> should_auto_increment,
           raised |-> raised,
           fields |-> <<>>,
           list_item_column |-> <<>>],
          Kw(kwargs, "name", ""))

\* fields: the child columns, in declaration order, already named
DictColumn(fields, kwargs) ==
    [Column("dict", kwargs) EXCEPT !.kind = "DictColumn", !.fields = fields]

\* ListColumn._update_name gives the item column the name of the list
ListColumn(list_item_type, kwargs) ==
    LET self == Column("list", kwargs)
    IN  [self EXCEPT !.kind = "ListColumn",
                     !.list_item_column = <<_update_name(list_item_type, self.name)>>]

\* class FakeModel(CRUDModel) of DictColumn._description_model
_description_model(self) ==
    [tablename |-> "", fields |-> self.fields, audit_model |-> FALSE]

(***************************************************************************)
(* Validation results are error mappings: key -> list of messages.  A      *)
(* Python exception escaping a validation is the one-entry mapping Raise.  *)
(***************************************************************************)
Raise(exception) == [raise |-> <<exception>>]
Raised(errors) == "raise" \in DOMAIN errors

\* errors.update(other), an exception ending the whole call
ErrorsUpdate(errors, other) ==
    IF Raised(errors) THEN errors
    ELSE IF Raised(other) THEN other
    ELSE DictUpdate(errors, other)

RECURSIVE MergeErrors(_)
MergeErrors(list_of_errors) ==
    IF Len(list_of_errors) = 0 THEN EmptyDict
    ELSE ErrorsUpdate(MergeErrors(SubSeq(list_of_errors, 1, Len(list_of_errors) - 1)),
                      list_of_errors[Len(list_of_errors)])

\* the keys of the nested errors are left as they are
PrefixErrors_unprefixed(prefix, errors) == errors

\* {f'{prefix}.{name}': errors}
PrefixErrors(prefix, errors) ==
    IF Raised(errors) THEN errors
    ELSE LET keys == {DotJoin(prefix, k) : k \in DOMAIN errors}
         IN  [key \in keys |->
                errors[CHOOSE k \in DOMAIN errors : DotJoin(prefix, k) = key]]

\* {f'{name}[{index}]': errors}
IndexErrors(index, errors) ==
    IF Raised(errors) THEN errors
    ELSE LET keys == {IndexJoin(k, index) : k \in DOMAIN errors}
         IN  [key \in keys |->
                errors[CHOOSE k \in DOMAIN errors : IndexJoin(k, index) = key]]

_validate_value(self, value) ==
    IF self.field_type = "enum" /\ value.t = "str"
    THEN IF value.s \notin get_choices
         THEN (self.name :> <<NotWithinMessage(value)>>)
         ELSE EmptyDict
    ELSE IF ~isinstance(value, self.field_type)
         THEN (self.name :> <<NotValidMessage(self.field_type)>>)
         ELSE EmptyDict

Column_validate_query(self, model_as_dict) ==
    LET value == Get(model_as_dict, self.name)
    IN  IF IsNone(value) THEN EmptyDict ELSE _validate_value(self, value)

Column_validate_insert(self, model_as_dict) ==
    LET value == Get(model_as_dict, self.name)
    IN  IF IsNone(value)
        THEN IF ~self.is_nullable
             THEN (self.name :> <<"Missing data for required field.">>)
             ELSE EmptyDict
        ELSE _validate_value(self, value)

\* no check for missing fields on update
Column_validate_update_no_missing(self, model_as_dict) ==
    LET value == Get(model_as_dict, self.name)
    IN  IF IsNone(value) THEN EmptyDict ELSE _validate_value(self, value)

Column_validate_update(self, model_as_dict) ==
    LET value == Get(model_as_dict, self.name)
    IN  IF IsNone(value)
        THEN IF ~self.is_nullable
             THEN (self.name :> <<"Missing data for required field.">>)
             ELSE EmptyDict
        ELSE _validate_value(self, value)

(***************************************************************************)
(* Dot notation.                                                           *)
(***************************************************************************)
\* the (known_field, field_value) pair; known_field is <<>> for None
_handle_dot_notation(cls, field_name, value) ==
    LET parent_field == Split(field_name)
        matching == IF Len(parent_field) = 2
                    THEN SelectSeq(cls.fields,
                             LAMBDA field : field.name = parent_field[1]
                                            /\ field.field_type = "dict")
                    ELSE <<>>
    IN  IF Len(matching) > 0
        THEN <<  <<matching[1]>>, (parent_field[2] :> value) >>
        ELSE << <<>>, EmptyDict >>

\* field names of the mapping that are no field of the model
UnknownFields(cls, model_as_dict) ==
    {field_name \in DOMAIN model_as_dict :
        \A i \in 1..Len(cls.fields) : cls.fields[i].name # field_name}

\* The loop "previous_dict = target.setdefault(known_field.name, {});
\* previous_dict.update(field_value)" over the unknown fields of source.
\* A value already under known_field.name that is no dict has no update().
RECURSIVE FoldDotNotation(_, _, _, _)
FoldDotNotation(cls, target, source, unknown_fields) ==
    IF unknown_fields = {} \/ Raised(target) THEN target
    ELSE LET unknown_field == CHOOSE f \in unknown_fields : TRUE
             handled == _handle_dot_notation(cls, unknown_field, source[unknown_field])
             rest == unknown_fields \ {unknown_field}
         IN  IF Len(handled[1]) = 0
             THEN FoldDotNotation(cls, target, source, rest)
             ELSE LET name == handled[1][1].name
                      previous_dict == IF name \in DOMAIN target THEN target[name]
                                       ELSE D(EmptyDict)
                  IN  IF previous_dict.t # "dict"
                      THEN Raise("AttributeError")
                      ELSE FoldDotNotation(cls,
                               Put(target, name, D(DictUpdate(previous_dict.d, handled[2]))),
                               source, rest)

(***************************************************************************)
(* validate_query / validate_insert / validate_update of the model and of  *)
(* the composite columns.                                                  *)
(***************************************************************************)
RECURSIVE field_validate_query(_, _)
RECURSIVE field_validate_insert(_, _)
RECURSIVE field_validate_update(_, _)

\* A reference is modelled by the objects of the caller's argument it
\* shares: "" is the argument itself, a key is the dictionary stored under
\* that key.
\* new = old: the new name is the argument itself
copy_alias(shared) == shared

\* copy.deepcopy(x): an equal value that shares no object with x
copy_deepcopy(shared) == {}

\* the caller's argument once the code has made `written` of the value it
\* holds through a reference sharing `shared` with the argument
Argument(original, written, shared) ==
    IF "" \in shared THEN written
    ELSE [k \in DOMAIN original |->
             IF k \in shared /\ k \in DOMAIN written THEN written[k]
             ELSE original[k]]

CRUDModel_validate_query(cls, model_as_dict) ==
    LET new_model_as_dict ==
            FoldDotNotation(cls, model_as_dict, model_as_dict,
                            UnknownFields(cls, model_as_dict))
        queried == SelectSeq(cls.fields,
                       LAMBDA field : field.name \in DOMAIN new_model_as_dict)
    IN  IF Raised(new_model_as_dict) THEN new_model_as_dict
        ELSE MergeErrors([i \in 1..Len(queried) |->
                 field_validate_query(queried[i], new_model_as_dict)])

CRUDModel_validate_insert(cls, model_as_dict) ==
    IF DOMAIN model_as_dict = {}
    THEN ("" :> <<"No data provided.">>)
    ELSE LET new_model_as_dict ==
                 FoldDotNotation(cls, model_as_dict, model_as_dict,
                                 UnknownFields(cls, model_as_dict))
         IN  IF Raised(new_model_as_dict) THEN new_model_as_dict
             ELSE MergeErrors([i \in 1..Len(cls.fields) |->
                      field_validate_insert(cls.fields[i], new_model_as_dict)])

CRUDModel_validate_update(cls, model_as_dict) ==
    IF DOMAIN model_as_dict = {}
    THEN ("" :> <<"No data provided.">>)
    ELSE LET new_model_as_dict ==
                 FoldDotNotation(cls, model_as_dict, model_as_dict,
                                 UnknownFields(cls, model_as_dict))
             \* Also ensure that Primary keys will contain a valid value
             updated_fields == SelectSeq(cls.fields,
                 LAMBDA field : field.name \in DOMAIN new_model_as_dict
                                \/ field.is_primary_key)
         IN  IF Raised(new_model_as_dict) THEN new_model_as_dict
             ELSE MergeErrors([i \in 1..Len(updated_fields) |->
                      field_validate_update(updated_fields[i], new_model_as_dict)])

DictColumn_validate_query(self, model_as_dict) ==
    LET errors == Column_validate_query(self, model_as_dict)
        value == Get(model_as_dict, self.name)
    IN  IF DOMAIN errors = {} /\ ~IsNone(value)
        THEN PrefixErrors(self.name,
                 CRUDModel_validate_query(_description_model(self), value.d))
        ELSE errors

DictColumn_validate_insert(self, model_as_dict) ==
    LET errors == Column_validate_insert(self, model_as_dict)
        value == Get(model_as_dict, self.name)
    IN  IF DOMAIN errors = {} /\ ~IsNone(value)
        THEN PrefixErrors(self.name,
                 CRUDModel_validate_insert(_description_model(self), value.d))
        ELSE errors

DictColumn_validate_update(self, model_as_dict) ==
    LET errors == Column_validate_update(self, model_as_dict)
        value == Get(model_as_dict, self.name)
    IN  IF DOMAIN errors = {} /\ ~IsNone(value)
        THEN PrefixErrors(self.name,
                 CRUDModel_validate_update(_description_model(self), value.d))
        ELSE errors

ListColumn_validate_query(self, model_as_dict) ==
    LET errors == Column_validate_query(self, model_as_dict)
        got == Get(model_as_dict, self.name)
        \* model_as_dict.get(self.name) or []
        values == IF Truthy(got) THEN got.l ELSE <<>>
    IN  IF DOMAIN errors = {}
        THEN MergeErrors([i \in 1..Len(values) |->
                 IndexErrors(i - 1,
                     field_validate_query(self.list_item_column[1],
                                          (self.name :> values[i])))])
        ELSE errors

ListColumn_validate_insert(self, model_as_dict) ==
    LET errors == Column_validate_insert(self, model_as_dict)
        got == Get(model_as_dict, self.name)
        \* model_as_dict.get(self.name) or []
        values == IF Truthy(got) THEN got.l ELSE <<>>
    IN  IF DOMAIN errors = {}
        THEN MergeErrors([i \in 1..Len(values) |->
                 IndexErrors(i - 1,
                     field_validate_insert(self.list_item_column[1],
                                           (self.name :> values[i])))])
        ELSE errors

\* values = model_as_dict[self.name]: KeyError when the key is absent,
\* TypeError when enumerate() is given None
ListColumn_validate_update(self, model_as_dict) ==
    LET errors == Column_validate_update(self, model_as_dict)
    IN  IF DOMAIN errors = {}
        THEN IF self.name \notin DOMAIN model_as_dict THEN Raise("KeyError")
             ELSE IF IsNone(model_as_dict[self.name]) THEN Raise("TypeError")
             ELSE LET values == model_as_dict[self.name].l
                  IN  MergeErrors([i \in 1..Len(values) |->
                          IndexErrors(i - 1,
                              field_validate_update(self.list_item_column[1],
                                                    (self.name :> values[i])))])
        ELSE errors

\* method dispatch on the class of the column
field_validate_query(field, model_as_dict) ==
    CASE field.kind = "DictColumn" -> DictColumn_validate_query(field, model_as_dict)
      [] field.kind = "ListColumn" -> ListColumn_validate_query(field, model_as_dict)
      [] OTHER -> Column_validate_query(field, model_as_dict)

field_validate_insert(field, model_as_dict) ==
    CASE field.kind = "DictColumn" -> DictColumn_validate_insert(field, model_as_dict)
      [] field.kind = "ListColumn" -> ListColumn_validate_insert(field, model_as_dict)
      [] OTHER -> Column_validate_insert(field, model_as_dict)

field_validate_update(field, model_as_dict) ==
    CASE field.kind = "DictColumn" -> DictColumn_validate_update(field, model_as_dict)
      [] field.kind = "ListColumn" -> ListColumn_validate_update(field, model_as_dict)
      [] OTHER -> Column_validate_update(field, model_as_dict)

(***************************************************************************)
(* Deserialization: the functions return the mapping the code leaves in    *)
(* model_as_dict.                                                          *)
(***************************************************************************)
\* enum names become the member value; the other modelled types are kept
_deserialize_value(self, value) ==
    IF self.field_type = "enum" /\ value.t = "str"
    THEN I(EnumMembers[value.s])
    ELSE value

\* a null stays in the filter
Column_deserialize_query_keep_none(self, model_as_dict) ==
    LET value == Get(model_as_dict, self.name)
    IN  IF IsNone(value) THEN model_as_dict
        ELSE Put(model_as_dict, self.name, _deserialize_value(self, value))

Column_deserialize_query(self, model_as_dict) ==
    LET value == Get(model_as_dict, self.name)
    IN  IF IsNone(value)
        THEN IF ~self.allow_none_as_filter THEN Pop(model_as_dict, self.name)
             ELSE model_as_dict
        ELSE Put(model_as_dict, self.name, _deserialize_value(self, value))

\* a null value is left in the mapping
Column_deserialize_insert_keep_null(self, model_as_dict) ==
    LET value == Get(model_as_dict, self.name)
    IN  IF IsNone(value) THEN model_as_dict
        ELSE Put(model_as_dict, self.name, _deserialize_value(self, value))

Column_deserialize_insert(self, model_as_dict) ==
    LET value == Get(model_as_dict, self.name)
    IN  IF IsNone(value)
        THEN Pop(model_as_dict, self.name)
        ELSE Put(model_as_dict, self.name, _deserialize_value(self, value))

Column_deserialize_update(self, model_as_dict) ==
    LET value == Get(model_as_dict, self.name)
    IN  IF IsNone(value)
        THEN Pop(model_as_dict, self.name)
        ELSE Put(model_as_dict, self.name, _deserialize_value(self, value))

RECURSIVE field_deserialize_query(_, _)
RECURSIVE field_deserialize_insert(_, _)
RECURSIVE field_deserialize_update(_, _)

\* for field in fields: model_as_dict = field.deserialize_query(model_as_dict)
RECURSIVE DeserializeEachQuery(_, _)
DeserializeEachQuery(fields, model_as_dict) ==
    IF Len(fields) = 0 THEN model_as_dict
    ELSE DeserializeEachQuery(Tail(fields),
             field_deserialize_query(Head(fields), model_as_dict))

\* for field in fields: model_as_dict = field.deserialize_insert(model_as_dict)
RECURSIVE DeserializeEachInsert(_, _)
DeserializeEachInsert(fields, model_as_dict) ==
    IF Len(fields) = 0 THEN model_as_dict
    ELSE DeserializeEachInsert(Tail(fields),
             field_deserialize_insert(Head(fields), model_as_dict))

\* for field in fields: model_as_dict = field.deserialize_update(model_as_dict)
RECURSIVE DeserializeEachUpdate(_, _)
DeserializeEachUpdate(fields, model_as_dict) ==
    IF Len(fields) = 0 THEN model_as_dict
    ELSE DeserializeEachUpdate(Tail(fields),
             field_deserialize_update(Head(fields), model_as_dict))

\* "Put back deserialized values as dot notation fields"
RECURSIVE PutBackDotNotation(_, _, _)
\* the deserialized dotted values are not put back
PutBackDotNotation_dropped(fields, dot_model_as_dict, model_as_dict) == model_as_dict

PutBackDotNotation(fields, dot_model_as_dict, model_as_dict) ==
    IF Len(fields) = 0 THEN model_as_dict
    ELSE LET field == Head(fields)
             inner == dot_model_as_dict[field.name].d
             dotted == {DotJoin(field.name, inner_field_name) :
                           inner_field_name \in DOMAIN inner}
         IN  PutBackDotNotation(Tail(fields), dot_model_as_dict,
                 [k \in (DOMAIN model_as_dict) \cup dotted |->
                     IF k \in dotted
                     THEN inner[CHOOSE n \in DOMAIN inner : DotJoin(field.name, n) = k]
                     ELSE model_as_dict[k]])

\* the fields given in dot notation, gathered under their DictColumn
DotModel(cls, model_as_dict) ==
    FoldDotNotation(cls, EmptyDict, model_as_dict, UnknownFields(cls, model_as_dict))

\* the fields of the model that the mapping holds
FieldsIn(cls, model_as_dict) ==
    SelectSeq(cls.fields, LAMBDA field : field.name \in DOMAIN model_as_dict)

\* the unknown fields are kept
KnownOnly_keep_unknown(cls, model_as_dict) == model_as_dict

\* the mapping without its unknown fields
KnownOnly(cls, model_as_dict) ==
    [k \in (DOMAIN model_as_dict) \ UnknownFields(cls, model_as_dict) |->
        model_as_dict[k]]

\* the last loop of deserialize_query
DeserializeQueried(cls, with_dots) ==
    DeserializeEachQuery(FieldsIn(cls, with_dots), with_dots)

CRUDModel_deserialize_query(cls, model_as_dict) ==
    DeserializeQueried(cls,
        PutBackDotNotation(FieldsIn(cls, DotModel(cls, model_as_dict)),
            DeserializeEachQuery(FieldsIn(cls, DotModel(cls, model_as_dict)),
                                 DotModel(cls, model_as_dict)),
            KnownOnly(cls, model_as_dict)))

\* the last loop of deserialize_update: the primary keys are visited too
DeserializeUpdated(cls, with_dots) ==
    DeserializeEachUpdate(
        SelectSeq(cls.fields, LAMBDA field : field.name \in DOMAIN with_dots
                                             \/ field.is_primary_key),
        with_dots)

CRUDModel_deserialize_update(cls, model_as_dict) ==
    DeserializeUpdated(cls,
        PutBackDotNotation(FieldsIn(cls, DotModel(cls, model_as_dict)),
            DeserializeEachUpdate(FieldsIn(cls, DotModel(cls, model_as_dict)),
                                  DotModel(cls, model_as_dict)),
            KnownOnly(cls, model_as_dict)))

\* CRUDModel.deserialize_insert without the auto increments (see _increment)
CRUDModel_deserialize_insert(cls, model_as_dict) ==
    LET unknown_fields == UnknownFields(cls, model_as_dict)
        folded == FoldDotNotation(cls, model_as_dict, model_as_dict, unknown_fields)
        known == [k \in (DOMAIN folded) \ unknown_fields |-> folded[k]]
    IN  DeserializeEachInsert(cls.fields, known)

DictColumn_deserialize_query(self, model_as_dict) ==
    LET value == Get(model_as_dict, self.name)
    IN  IF IsNone(value)
        THEN IF ~self.allow_none_as_filter THEN Pop(model_as_dict, self.name)
             ELSE model_as_dict
        ELSE Put(model_as_dict, self.name,
                 D(CRUDModel_deserialize_query(_description_model(self), value.d)))

DictColumn_deserialize_insert(self, model_as_dict) ==
    LET value == Get(model_as_dict, self.name)
    IN  IF IsNone(value)
        THEN Pop(model_as_dict, self.name)
        ELSE Put(model_as_dict, self.name,
                 D(CRUDModel_deserialize_insert(_description_model(self), value.d)))

DictColumn_deserialize_update(self, model_as_dict) ==
    LET value == Get(model_as_dict, self.name)
    IN  IF IsNone(value)
        THEN Pop(model_as_dict, self.name)
        ELSE Put(model_as_dict, self.name,
                 D(CRUDModel_deserialize_update(_description_model(self), value.d)))

\* the item of a one-entry mapping after deserialization, dropped when popped
KeptItem(self, value_dict) ==
    IF self.name \in DOMAIN value_dict THEN <<value_dict[self.name]>> ELSE <<>>

RECURSIVE DeserializeItemsQuery(_, _)
DeserializeItemsQuery(self, values) ==
    IF Len(values) = 0 THEN <<>>
    ELSE KeptItem(self, field_deserialize_query(self.list_item_column[1],
                                                (self.name :> Head(values))))
         \o DeserializeItemsQuery(self, Tail(values))

RECURSIVE DeserializeItemsInsert(_, _)
DeserializeItemsInsert(self, values) ==
    IF Len(values) = 0 THEN <<>>
    ELSE KeptItem(self, field_deserialize_insert(self.list_item_column[1],
                                                 (self.name :> Head(values))))
         \o DeserializeItemsInsert(self, Tail(values))

RECURSIVE DeserializeItemsUpdate(_, _)
DeserializeItemsUpdate(self, values) ==
    IF Len(values) = 0 THEN <<>>
    ELSE KeptItem(self, field_deserialize_update(self.list_item_column[1],
                                                 (self.name :> Head(values))))
         \o DeserializeItemsUpdate(self, Tail(values))

ListColumn_deserialize_query(self, model_as_dict) ==
    LET values == Get(model_as_dict, self.name)
    IN  IF IsNone(values)
        THEN IF ~self.allow_none_as_filter THEN Pop(model_as_dict, self.name)
             ELSE model_as_dict
        ELSE Put(model_as_dict, self.name, L(DeserializeItemsQuery(self, values.l)))

ListColumn_deserialize_insert(self, model_as_dict) ==
    LET values == Get(model_as_dict, self.name)
    IN  IF IsNone(values)
        THEN Pop(model_as_dict, self.name)
        ELSE Put(model_as_dict, self.name, L(DeserializeItemsInsert(self, values.l)))

ListColumn_deserialize_update(self, model_as_dict) ==
    LET values == Get(model_as_dict, self.name)
    IN  IF IsNone(values)
        THEN Pop(model_as_dict, self.name)
        ELSE Put(model_as_dict, self.name, L(DeserializeItemsUpdate(self, values.l)))

field_deserialize_query(field, model_as_dict) ==
    CASE field.kind = "DictColumn" -> DictColumn_deserialize_query(field, model_as_dict)
      [] field.kind = "ListColumn" -> ListColumn_deserialize_query(field, model_as_dict)
      [] OTHER -> Column_deserialize_query(field, model_as_dict)

field_deserialize_insert(field, model_as_dict) ==
    CASE field.kind = "DictColumn" -> DictColumn_deserialize_insert(field, model_as_dict)
      [] field.kind = "ListColumn" -> ListColumn_deserialize_insert(field, model_as_dict)
      [] OTHER -> Column_deserialize_insert(field, model_as_dict)

field_deserialize_update(field, model_as_dict) ==
    CASE field.kind = "DictColumn" -> DictColumn_deserialize_update(field, model_as_dict)
      [] field.kind = "ListColumn" -> ListColumn_deserialize_update(field, model_as_dict)
      [] OTHER -> Column_deserialize_update(field, model_as_dict)

(***************************************************************************)
(* Serialization.                                                          *)
(***************************************************************************)
\* self.field_type(value).name
EnumName(value) ==
    S(CHOOSE name \in DOMAIN EnumMembers : EnumMembers[name] = value.i)

Column_serialize(self, model_as_dict) ==
    LET value == Get(model_as_dict, self.name)
    IN  IF IsNone(value)
        THEN IF self.is_nullable
             THEN Put(model_as_dict, self.name, self.default_value)
             ELSE model_as_dict
        ELSE IF self.field_type = "enum"
             THEN Put(model_as_dict, self.name, EnumName(value))
             ELSE model_as_dict

RECURSIVE field_serialize(_, _)

RECURSIVE SerializeEach(_, _)
SerializeEach(fields, model_as_dict) ==
    IF Len(fields) = 0 THEN model_as_dict
    ELSE SerializeEach(Tail(fields), field_serialize(Head(fields), model_as_dict))

CRUDModel_serialize(cls, model_as_dict) ==
    IF DOMAIN model_as_dict = {} THEN EmptyDict
    ELSE LET serialized == SerializeEach(cls.fields, model_as_dict)
             known_fields == {cls.fields[i].name : i \in 1..Len(cls.fields)}
         IN  [k \in (DOMAIN serialized) \cap known_fields |-> serialized[k]]

\* value = model_as_dict.get(self.name, {}): the nested model serializes the
\* stored dict in place; an absent (or null) value leaves the mapping as it is
DictColumn_serialize(self, model_as_dict) ==
    IF self.name \notin DOMAIN model_as_dict \/ IsNone(model_as_dict[self.name])
    THEN model_as_dict
    ELSE IF DOMAIN model_as_dict[self.name].d = {} THEN model_as_dict
    ELSE Put(model_as_dict, self.name,
             D(CRUDModel_serialize(_description_model(self),
                                   model_as_dict[self.name].d)))

RECURSIVE SerializeItems(_, _)
SerializeItems(self, values) ==
    IF Len(values) = 0 THEN <<>>
    ELSE LET value_dict == field_serialize(self.list_item_column[1],
                                           (self.name :> Head(values)))
         IN  (IF self.name \in DOMAIN value_dict THEN <<value_dict[self.name]>> ELSE <<>>)
             \o SerializeItems(self, Tail(values))

ListColumn_serialize(self, model_as_dict) ==
    LET values == IF self.name \in DOMAIN model_as_dict
                  THEN model_as_dict[self.name].l ELSE <<>>
    IN  Put(model_as_dict, self.name, L(SerializeItems(self, values)))

field_serialize(field, model_as_dict) ==
    CASE field.kind = "DictColumn" -> DictColumn_serialize(field, model_as_dict)
      [] field.kind = "ListColumn" -> ListColumn_serialize(field, model_as_dict)
      [] OTHER -> Column_serialize(field, model_as_dict)

(***************************************************************************)
(* The models (class definitions).  __fields__ is built from               *)
(* inspect.getmembers, which lists attributes sorted by name.              *)
(***************************************************************************)
KeyValueModel ==
    [tablename |-> "key_value",
     fields |-> << Column("str", [name |-> "key", is_primary_key |-> TRUE]),
                   Column("int", [name |-> "value", default_value |-> I(0)]) >>,
     audit_model |-> TRUE]

UniqueModel ==
    [tablename |-> "unique",
     fields |-> << Column("str", [name |-> "key", is_primary_key |-> TRUE,
                                  index_type |-> "Unique"]),
                   Column("int", [name |-> "mandatory", is_nullable |-> FALSE]),
                   Column("enum", [name |-> "optional"]) >>,
     audit_model |-> TRUE]

AutoIncModel ==
    [tablename |-> "auto_inc",
     fields |-> << Column("int", [name |-> "key", is_primary_key |-> TRUE,
                                  should_auto_increment |-> TRUE]),
                   Column("str", [name |-> "value"]) >>,
     audit_model |-> TRUE]

NestedModel ==
    [tablename |-> "nested",
     fields |-> << DictColumn(<< Column("int", [name |-> "a", is_nullable |-> FALSE]),
                                 Column("str", [name |-> "b"]) >>,
                              [name |-> "d"]),
                   Column("str", [name |-> "key", is_primary_key |-> TRUE,
                                  index_type |-> "Unique"]),
                   ListColumn(Column("int", [name |-> ""]), [name |-> "l"]) >>,
     audit_model |-> FALSE]

ListOfDictModel ==
    [tablename |-> "list_of_dict",
     fields |-> << Column("str", [name |-> "key", is_primary_key |-> TRUE]),
                   ListColumn(DictColumn(<< Column("int", [name |-> "a",
                                                           is_nullable |-> FALSE]),
                                            Column("str", [name |-> "b"]) >>,
                                         [name |-> ""]),
                              [name |-> "l"]) >>,
     audit_model |-> FALSE]

\* the model of the limits tests, its float field left out; Column.__init__
\* pops the keyword arguments it knows and ignores the others
LimitsModel ==
    [tablename |-> "limits_table_name",
     fields |-> << Column("dict", [name |-> "dict_field",
                                   min_length |-> 2, max_length |-> 3]),
                   Column("int", [name |-> "int_field",
                                  min_value |-> 100, max_value |-> 999]),
                   Column("str", [name |-> "key", is_primary_key |-> TRUE,
                                  min_length |-> 3, max_length |-> 4]),
                   Column("list", [name |-> "list_field",
                                   min_length |-> 2, max_length |-> 3]) >>,
     audit_model |-> FALSE]

\* a model with two fields of the unique index
TwoUniqueModel ==
    [tablename |-> "two_unique",
     fields |-> << Column("str", [name |-> "key", is_primary_key |-> TRUE,
                                  index_type |-> "Unique"]),
                   Column("int", [name |-> "unique_value",
                                  index_type |-> "Unique"]) >>,
     audit_model |-> FALSE]

\* a model whose primary key is a dictionary field
DictKeyModel ==
    [tablename |-> "dict_key",
     fields |-> << DictColumn(<< Column("int", [name |-> "a"]) >>,
                              [name |-> "d", is_primary_key |-> TRUE]),
                   Column("str", [name |-> "value"]) >>,
     audit_model |-> FALSE]

Models ==
    [key_value |-> KeyValueModel, unique |-> UniqueModel,
     auto_inc |-> AutoIncModel, nested |-> NestedModel,
     list_of_dict |-> ListOfDictModel, limits |-> LimitsModel,
     two_unique |-> TwoUniqueModel, dict_key |-> DictKeyModel]

(***************************************************************************)
(* Indexes.                                                                *)
(***************************************************************************)
RECURSIVE get_index_fields(_, _)
get_index_fields(cls, index_type) ==
    LET index_fields == SelectSeq(cls.fields,
                            LAMBDA field : field.index_type = index_type)
        dict_columns == SelectSeq(cls.fields,
                            LAMBDA field : field.kind = "DictColumn")
        Nested[i \in 0..Len(dict_columns)] ==
            IF i = 0 THEN <<>>
            ELSE Nested[i - 1]
                 \o get_index_fields(_description_model(dict_columns[i]), index_type)
    IN  index_fields \o Nested[Len(dict_columns)]

\* the criteria handed to create_index: <<>> when no index is created
_create_indexes(cls, index_type) ==
    LET index_fields == get_index_fields(cls, index_type)
    IN  [i \in 1..Len(index_fields) |-> index_fields[i].name]

(***************************************************************************)
(* The Mongo collection: a sequence of documents in insertion order.       *)
(***************************************************************************)
\* the value of a document under a (possibly dotted) key; null when missing
LookupPath(document, key) ==
    LET path == Split(key)
    IN  IF Len(path) = 1 THEN Get(document, key)
        ELSE IF path[1] \in DOMAIN document /\ document[path[1]].t = "dict"
             THEN Get(document[path[1]].d, path[2])
             ELSE None

Matches(document, filter) ==
    \A key \in DOMAIN filter : LookupPath(document, key) = filter[key]

find(documents, filter) ==
    SelectSeq(documents, LAMBDA document : Matches(document, filter))

\* <<>> for None
find_one(documents, filter) ==
    LET found == find(documents, filter)
    IN  IF Len(found) = 0 THEN <<>> ELSE <<found[1]>>

\* the count never exceeds one
count_at_most_one(documents, filter) ==
    IF Len(find(documents, filter)) = 0 THEN 0 ELSE 1

count(documents, filter) == Len(find(documents, filter))

\* no unique index is enforced
DuplicateKeyError_never(documents, unique_index, document) == FALSE

\* a unique index rejects a document equal to a stored one on all its keys
DuplicateKeyError(documents, unique_index, document) ==
    /\ Len(unique_index) > 0
    /\ \E i \in 1..Len(documents) :
          \A j \in 1..Len(unique_index) :
             Get(documents[i], unique_index[j]) = Get(document, unique_index[j])

\* {'$set': fields} on one document; a dotted key sets the nested value
RECURSIVE SetFields(_, _, _)
SetFields(document, fields, keys) ==
    IF keys = {} THEN document
    ELSE LET key == CHOOSE k \in keys : TRUE
             path == Split(key)
             updated ==
                 IF Len(path) = 1 THEN Put(document, key, fields[key])
                 ELSE LET parent == IF path[1] \in DOMAIN document
                                    THEN document[path[1]].d ELSE EmptyDict
                      IN  Put(document, path[1], D(Put(parent, path[2], fields[key])))
         IN  SetFields(updated, fields, keys \ {key})

\* the first matching document is replaced by the fields instead of merged
update_one_replace(documents, filter, fields) ==
    LET matching == {i \in 1..Len(documents) : Matches(documents[i], filter)}
    IN  IF matching = {} THEN documents
        ELSE LET first == CHOOSE i \in matching : \A j \in matching : i <= j
             IN  [documents EXCEPT ![first] = Put(fields, "_id", @["_id"])]

\* update_one(filter, {'$set': fields}): the first matching document
update_one(documents, filter, fields) ==
    LET matching == {i \in 1..Len(documents) : Matches(documents[i], filter)}
    IN  IF matching = {} THEN documents
        ELSE LET first == CHOOSE i \in matching : \A j \in matching : i <= j
             IN  [documents EXCEPT ![first] = SetFields(@, fields, DOMAIN fields)]

\* only the first matching document is deleted
delete_one(documents, filter) ==
    IF Len(find(documents, filter)) = 0 THEN documents
    ELSE SelectSeq(documents, LAMBDA document : document # find(documents, filter)[1])

delete_many(documents, filter) ==
    SelectSeq(documents, LAMBDA document : ~Matches(document, filter))

(***************************************************************************)
(* The counters collection: field name -> counter of the one counter       *)
(* document {'_id': collection name}; no entry while no counter exists.    *)
(***************************************************************************)
\* the upsert without the $inc
find_one_and_update_no_inc(counter_document, field_name) ==
    Put(counter_document, field_name,
        IF field_name \in DOMAIN counter_document
        THEN counter_document[field_name] ELSE 1)

\* find_one_and_update($inc counter, upsert, ReturnDocument.AFTER): the
\* document after the update
find_one_and_update(counter_document, field_name) ==
    Put(counter_document, field_name,
        IF field_name \in DOMAIN counter_document
        THEN counter_document[field_name] + 1 ELSE 1)

(***************************************************************************)
(* State.                                                                  *)
(***************************************************************************)
VARIABLES
    model,            \* name of the CRUDModel subclass bound to the collection
    collection,       \* cls.__collection__: the stored documents, in order
    counters,         \* cls.__counters__: the counter document of the collection
    next_id,          \* number of the next ObjectId the driver generates
    uidx,             \* criteria of the unique index created at bind time
    last,             \* the last call of add/add_all/update/get/remove
    pc,               \* position of each concurrent caller of _increment
    counter_element,  \* the document find_one_and_update returned to a caller
    applied,          \* the callers in the order their updates were applied
    returned,         \* the values _increment returned to each caller
    validated,        \* the last direct call of a validate_* method
    constructed,      \* the last column constructed: arguments and outcome
    threads           \* the call each concurrent client has in flight

vars == <<model, collection, counters, next_id, uidx, last, pc,
          counter_element, applied, returned, validated, constructed,
                   threads>>

cls == Models[model]

(***************************************************************************)
(* The lifecycle operations.  Each is the outcome of one whole call on the *)
(* current state: the storage it leaves, what it returns or raises, and    *)
(* the calls it made to its collaborators, in order.                       *)
(***************************************************************************)
Outcome(documents, counter_document, id, exc, message, errors, received_data, ret, calls) ==
    [collection |-> documents, counters |-> counter_document, next_id |-> id,
     exc |-> exc, message |-> message, errors |-> errors,
     received_data |-> received_data, ret |-> ret, calls |-> calls]

\* the counter is created anew at every call
_increment_reset(counter_document, field_name) ==
    Put(counter_document, field_name, 1)

\* _increment(field_name): the counter document after the atomic update;
\* the value returned is counter_element[field_name]['counter']
_increment(counter_document, field_name) ==
    find_one_and_update(counter_document, field_name)

\* the loop of deserialize_insert over the auto incremented fields
RECURSIVE AutoIncrement(_, _, _)
AutoIncrement(fields, model_as_dict, counter_document) ==
    IF Len(fields) = 0
    THEN [model_as_dict |-> model_as_dict, counters |-> counter_document,
          calls |-> <<>>]
    ELSE IF Head(fields).should_auto_increment
    THEN LET counter_elt == _increment(counter_document, Head(fields).name)
             rest == AutoIncrement(Tail(fields),
                         Put(model_as_dict, Head(fields).name,
                             I(counter_elt[Head(fields).name])),
                         counter_elt)
         IN  [rest EXCEPT !.calls = <<"counters.find_one_and_update">> \o @]
    ELSE AutoIncrement(Tail(fields), model_as_dict, counter_document)

\* the supplied values are kept and no counter is incremented
deserialize_insert_as_supplied(model_as_dict, counter_document) ==
    [model_as_dict |-> CRUDModel_deserialize_insert(cls, model_as_dict),
     counters |-> counter_document, calls |-> <<>>]

\* CRUDModel.deserialize_insert, the counters included
deserialize_insert(model_as_dict, counter_document) ==
    AutoIncrement(cls.fields, CRUDModel_deserialize_insert(cls, model_as_dict),
                  counter_document)

_to_primary_keys_model(model_as_dict) ==
    LET primary_key_field_names ==
            {cls.fields[i].name : i \in {j \in 1..Len(cls.fields) :
                                           cls.fields[j].is_primary_key}}
    IN  [field_name \in (DOMAIN model_as_dict) \cap primary_key_field_names |->
            model_as_dict[field_name]]

\* insert_one never finds a duplicate
_insert_one_no_duplicate(deserialized, document) ==
    Outcome(Append(collection, document), deserialized.counters,
            next_id + 1, "", "", EmptyDict, None,
            D(CRUDModel_serialize(cls, document)),
            deserialized.calls \o <<"collection.insert_one">>
            \o (IF cls.audit_model THEN <<"audit_add">> ELSE <<>>))

\* _insert_one of the deserialized document and what add makes of it
_insert_one(deserialized, document) ==
    IF DuplicateKeyError(collection, uidx, document)
    THEN Outcome(collection, deserialized.counters, next_id,
                 "ValidationFailed", "This item already exists.", EmptyDict,
                 D(CRUDModel_serialize(cls, document)), None,
                 deserialized.calls \o <<"collection.insert_one">>)
    ELSE Outcome(Append(collection, document), deserialized.counters,
                 next_id + 1, "", "", EmptyDict, None,
                 D(CRUDModel_serialize(cls, document)),
                 deserialized.calls \o <<"collection.insert_one">>
                 \o (IF cls.audit_model THEN <<"audit_add">> ELSE <<>>))

\* insert_one gives the document its _id
AddDeserialized(deserialized) ==
    _insert_one(deserialized, Put(deserialized.model_as_dict, "_id", OID(next_id)))

\* add once validate_insert has returned its errors
AddValidated(model_as_dict, errors) ==
    IF Raised(errors)
    THEN Outcome(collection, counters, next_id, errors.raise[1], "",
                 EmptyDict, None, None, <<>>)
    ELSE IF DOMAIN errors # {}
    THEN Outcome(collection, counters, next_id, "ValidationFailed", "",
                 errors, D(model_as_dict), None, <<>>)
    ELSE AddDeserialized(deserialize_insert(model_as_dict, counters))

add(model_as_dict) ==
    AddValidated(model_as_dict, CRUDModel_validate_insert(cls, model_as_dict))

\* the loop of add_all: validate each item and deserialize the valid ones.
\* errors maps the position of an invalid item to its errors.
RECURSIVE AddAllLoop(_, _, _)
RECURSIVE AddAllItem(_, _, _, _)
RECURSIVE AddAllValid(_, _, _)

\* a valid item is deserialized (its counters incremented) before the next
\* item is validated
AddAllValid(models_as_list_of_dict, index, deserialized) ==
    [AddAllLoop(models_as_list_of_dict, index + 1, deserialized.counters)
        EXCEPT !.new_models = <<deserialized.model_as_dict>> \o @,
               !.calls = deserialized.calls \o @]

\* one turn of the loop, given the errors of the item at index
AddAllItem(models_as_list_of_dict, index, counter_document, model_errors) ==
    IF Raised(model_errors)
    THEN [errors |-> <<>>, new_models |-> <<>>, counters |-> counter_document,
          calls |-> <<>>, raised |-> model_errors.raise[1]]
    ELSE IF DOMAIN model_errors # {}
    THEN [AddAllLoop(models_as_list_of_dict, index + 1, counter_document)
             EXCEPT !.errors = <<<<index, model_errors>>>> \o @,
                    !.new_models = <<models_as_list_of_dict[index + 1]>> \o @]
    ELSE AddAllValid(models_as_list_of_dict, index,
             deserialize_insert(models_as_list_of_dict[index + 1], counter_document))

AddAllLoop(models_as_list_of_dict, index, counter_document) ==
    IF index >= Len(models_as_list_of_dict)
    THEN [errors |-> <<>>, new_models |-> <<>>, counters |-> counter_document,
          calls |-> <<>>, raised |-> ""]
    ELSE AddAllItem(models_as_list_of_dict, index, counter_document,
             CRUDModel_validate_insert(cls, models_as_list_of_dict[index + 1]))

\* positions counted from one
IndexedErrors_from_one(pairs) ==
    [index \in {pairs[i][1] + 1 : i \in 1..Len(pairs)} |->
        (CHOOSE pair \in {pairs[i] : i \in 1..Len(pairs)} : pair[1] + 1 = index)[2]]

\* errors[index] = model_errors, as a mapping from positions to errors
IndexedErrors(pairs) ==
    [index \in {pairs[i][1] : i \in 1..Len(pairs)} |->
        (CHOOSE pair \in {pairs[i] : i \in 1..Len(pairs)} : pair[1] = index)[2]]

\* insert_many, ordered: the documents are written in order up to the first
\* one a unique index rejects
RECURSIVE insert_many(_, _)
insert_many(documents, new_documents) ==
    IF Len(new_documents) = 0
    THEN [collection |-> documents, BulkWriteError |-> FALSE]
    ELSE IF DuplicateKeyError(documents, uidx, Head(new_documents))
    THEN [collection |-> documents, BulkWriteError |-> TRUE]
    ELSE insert_many(Append(documents, Head(new_documents)), Tail(new_documents))

\* a batch that is never taken for empty
NoDataProvided_never(models_as_list_of_dict) == FALSE

\* if not models_as_list_of_dict
NoDataProvided(models_as_list_of_dict) == Len(models_as_list_of_dict) = 0

\* the data a ValidationFailed of add_all carries
ReceivedList(models_as_list_of_dict, new_models_as_list_of_dict) ==
    L([i \in 1..Len(models_as_list_of_dict) |->
         D(Argument(models_as_list_of_dict, new_models_as_list_of_dict,
                    copy_deepcopy({""}))[i])])

\* what add_all makes of the result of insert_many
AddAllInserted(models_as_list_of_dict, loop, new_models_as_list_of_dict, inserted) ==
    IF inserted.BulkWriteError
    THEN Outcome(inserted.collection, loop.counters,
                 next_id + Len(new_models_as_list_of_dict),
                 "ValidationFailed", "BulkWriteError details", EmptyDict,
                 ReceivedList(models_as_list_of_dict, new_models_as_list_of_dict),
                 None, loop.calls \o <<"collection.insert_many">>)
    ELSE Outcome(inserted.collection, loop.counters,
                 next_id + Len(new_models_as_list_of_dict), "", "",
                 EmptyDict, None,
                 L([i \in 1..Len(new_models_as_list_of_dict) |->
                      D(CRUDModel_serialize(cls, new_models_as_list_of_dict[i]))]),
                 loop.calls \o <<"collection.insert_many">>
                 \o (IF cls.audit_model
                     THEN [i \in 1..Len(new_models_as_list_of_dict) |-> "audit_add"]
                     ELSE <<>>))

_insert_many(models_as_list_of_dict, loop, new_models_as_list_of_dict) ==
    AddAllInserted(models_as_list_of_dict, loop, new_models_as_list_of_dict,
                   insert_many(collection, new_models_as_list_of_dict))

\* add_all once its loop has run; insert_many gives every document its _id
\* before writing
AddAllLooped(models_as_list_of_dict, loop) ==
    IF NoDataProvided(models_as_list_of_dict)
    THEN Outcome(collection, counters, next_id, "ValidationFailed",
                 "No data provided.", EmptyDict, L(<<>>), None, <<>>)
    ELSE IF loop.raised # ""
    THEN Outcome(collection, loop.counters, next_id, loop.raised, "",
                 EmptyDict, None, None, loop.calls)
    ELSE IF Len(loop.errors) > 0
    THEN Outcome(collection, loop.counters, next_id, "ValidationFailed", "",
                 IndexedErrors(loop.errors),
                 ReceivedList(models_as_list_of_dict, loop.new_models), None,
                 loop.calls)
    ELSE _insert_many(models_as_list_of_dict, loop,
             [i \in 1..Len(loop.new_models) |->
                 Put(loop.new_models[i], "_id", OID(next_id + i - 1))])

add_all(models_as_list_of_dict) ==
    AddAllLooped(models_as_list_of_dict,
                 AddAllLoop(models_as_list_of_dict, 0, counters))

\* update_one with $set, then find_one again
\* update_one raises DuplicateKeyError and changes nothing when the updated
\* document would equal another one on all the keys of the unique index
UpdateOneUpdated(model_as_dict_keys, previous_model_as_dict, updated) ==
    IF /\ Len(uidx) > 0
       /\ \E i \in 1..Len(updated) : \E j \in 1..Len(updated) :
             /\ i < j
             /\ \A k \in 1..Len(uidx) :
                   Get(updated[i], uidx[k]) = Get(updated[j], uidx[k])
    THEN [ModelCouldNotBeFound |-> FALSE, DuplicateKeyError |-> TRUE,
          keys |-> model_as_dict_keys, collection |-> collection,
          previous |-> previous_model_as_dict, new |-> <<>>,
          calls |-> <<"collection.find_one", "collection.update_one">>]
    ELSE [ModelCouldNotBeFound |-> FALSE, DuplicateKeyError |-> FALSE,
          keys |-> model_as_dict_keys,
          collection |-> updated, previous |-> previous_model_as_dict,
          new |-> find_one(updated, model_as_dict_keys),
          calls |-> <<"collection.find_one", "collection.update_one",
                      "collection.find_one">>]

\* the existence check is left out
UpdateOneFound_unchecked(model_as_dict, model_as_dict_keys, previous_model_as_dict) ==
    UpdateOneUpdated(model_as_dict_keys, previous_model_as_dict,
                     update_one(collection, model_as_dict_keys, model_as_dict))

\* if not previous_model_as_dict: raise ModelCouldNotBeFound
UpdateOneFound(model_as_dict, model_as_dict_keys, previous_model_as_dict) ==
    IF Len(previous_model_as_dict) = 0
    THEN [ModelCouldNotBeFound |-> TRUE, DuplicateKeyError |-> FALSE,
          keys |-> model_as_dict_keys,
          collection |-> collection, previous |-> <<>>, new |-> <<>>,
          calls |-> <<"collection.find_one">>]
    ELSE UpdateOneUpdated(model_as_dict_keys, previous_model_as_dict,
                          update_one(collection, model_as_dict_keys, model_as_dict))

\* previous_model_as_dict = find_one(model_as_dict_keys)
UpdateOneByKeys(model_as_dict, model_as_dict_keys) ==
    UpdateOneFound(model_as_dict, model_as_dict_keys,
                   find_one(collection, model_as_dict_keys))

_update_one(model_as_dict) ==
    UpdateOneByKeys(model_as_dict, _to_primary_keys_model(model_as_dict))

\* serialize(None) is {}
SerializeFound(found) ==
    IF Len(found) = 0 THEN EmptyDict ELSE CRUDModel_serialize(cls, found[1])

\* update once _update_one has returned or raised
UpdateDone(updated) ==
    IF updated.ModelCouldNotBeFound
    THEN Outcome(collection, counters, next_id, "ModelCouldNotBeFound", "",
                 EmptyDict, D(updated.keys), None, updated.calls)
    ELSE IF updated.DuplicateKeyError
    THEN Outcome(collection, counters, next_id, "DuplicateKeyError", "",
                 EmptyDict, None, None, updated.calls)
    ELSE Outcome(updated.collection, counters, next_id, "", "", EmptyDict,
                 None,
                 L(<<D(SerializeFound(updated.previous)),
                     D(SerializeFound(updated.new))>>),
                 updated.calls \o (IF cls.audit_model THEN <<"audit_update">>
                                   ELSE <<>>))

\* update once validate_update has returned its errors
UpdateValidated(model_as_dict, errors) ==
    IF DOMAIN model_as_dict = {}
    THEN Outcome(collection, counters, next_id, "ValidationFailed",
                 "No data provided.", EmptyDict, D(EmptyDict), None, <<>>)
    ELSE IF Raised(errors)
    THEN Outcome(collection, counters, next_id, errors.raise[1], "",
                 EmptyDict, None, None, <<>>)
    ELSE IF DOMAIN errors # {}
    THEN Outcome(collection, counters, next_id, "ValidationFailed", "",
                 errors, D(model_as_dict), None, <<>>)
    ELSE UpdateDone(_update_one(CRUDModel_deserialize_update(cls, model_as_dict)))

update(model_as_dict) ==
    UpdateValidated(model_as_dict, CRUDModel_validate_update(cls, model_as_dict))

\* get once the query is deserialized
GetDeserialized(deserialized) ==
    IF count(collection, deserialized) > 1
    THEN Outcome(collection, counters, next_id, "ValidationFailed",
                 "More than one result: Consider another filtering.",
                 EmptyDict, D(deserialized), None, <<"collection.count">>)
    ELSE Outcome(collection, counters, next_id, "", "", EmptyDict, None,
                 D(SerializeFound(find_one(collection, deserialized))),
                 <<"collection.count", "collection.find_one">>)

\* get once validate_query has returned its errors
GetValidated(model_to_query, errors) ==
    IF Raised(errors)
    THEN Outcome(collection, counters, next_id, errors.raise[1], "",
                 EmptyDict, None, None, <<>>)
    ELSE IF DOMAIN errors # {}
    THEN Outcome(collection, counters, next_id, "ValidationFailed", "",
                 errors, D(model_to_query), None, <<>>)
    ELSE GetDeserialized(CRUDModel_deserialize_query(cls, model_to_query))

get(model_to_query) ==
    GetValidated(model_to_query, CRUDModel_validate_query(cls, model_to_query))

_delete_many(model_to_query) == delete_many(collection, model_to_query)

\* audit_remove is called before the documents are deleted
RemoveDeleted(remaining) ==
    Outcome(remaining, counters, next_id, "", "", EmptyDict, None,
            I(Len(collection) - Len(remaining)),
            (IF cls.audit_model THEN <<"audit_remove">> ELSE <<>>)
            \o <<"collection.delete_many">>)

\* remove once validate_query has returned its errors
RemoveValidated(model_to_query, errors) ==
    IF Raised(errors)
    THEN Outcome(collection, counters, next_id, errors.raise[1], "",
                 EmptyDict, None, None, <<>>)
    ELSE IF DOMAIN errors # {}
    THEN Outcome(collection, counters, next_id, "ValidationFailed", "",
                 errors, D(model_to_query), None, <<>>)
    ELSE RemoveDeleted(_delete_many(CRUDModel_deserialize_query(cls, model_to_query)))

remove(model_to_query) ==
    RemoveValidated(model_to_query, CRUDModel_validate_query(cls, model_to_query))

(***************************************************************************)
(* The inputs the callers submit, per model.                               *)
(***************************************************************************)
Records ==
    CASE model = "key_value" ->
           { ("key" :> S("a")),
             ("key" :> S("a")) @@ ("value" :> I(5)),
             ("key" :> S("a")) @@ ("value" :> None),
             ("key" :> S("c")) @@ ("unknown" :> I(1)),
             ("value" :> I(5)),
             EmptyDict }
      [] model = "unique" ->
           { ("key" :> S("a")) @@ ("mandatory" :> I(1)),
             ("key" :> S("a")) @@ ("mandatory" :> I(2)) @@ ("optional" :> S("A")),
             ("key" :> S("b")) @@ ("mandatory" :> I(3)) @@ ("optional" :> S("B")),
             ("key" :> S("b")) @@ ("mandatory" :> I(1)) @@ ("optional" :> S("C")),
             ("key" :> S("a")) @@ ("optional" :> S("B")),
             ("key" :> S("b")) @@ ("mandatory" :> None),
             ("mandatory" :> I(2)) }
      [] model = "two_unique" ->
           { ("key" :> S("a")) @@ ("unique_value" :> I(1)),
             ("key" :> S("a")) @@ ("unique_value" :> I(2)),
             ("key" :> S("b")) @@ ("unique_value" :> I(1)) }
      [] model = "dict_key" ->
           { ("d" :> D(("a" :> I(1)))) @@ ("value" :> S("x")),
             ("d" :> D(("a" :> I(2)))) @@ ("value" :> S("y")),
             ("d.a" :> I(2)) @@ ("value" :> S("z")),
             ("value" :> S("z")) }
      [] model = "auto_inc" ->
           { ("value" :> S("x")),
             ("key" :> I(7)) @@ ("value" :> S("y")),
             ("key" :> I(1)) @@ ("value" :> S("z")),
             ("value" :> S("z")),
             ("value" :> I(1)) }
      [] model = "limits" ->
           { ("dict_field" :> D(("my" :> I(1)) @@ ("test" :> I(2))))
                @@ ("int_field" :> I(100)) @@ ("key" :> S("111"))
                @@ ("list_field" :> L(<<S("1"), S("2"), S("3")>>)),
             ("dict_field" :> D(("my" :> I(1)) @@ ("test" :> I(2))
                                @@ ("is" :> I(3)) @@ ("invalid" :> I(4))))
                @@ ("int_field" :> I(1000)) @@ ("key" :> S("11111"))
                @@ ("list_field" :> L(<<S("1"), S("2"), S("3"), S("4"), S("5")>>)),
             ("dict_field" :> D(("my" :> I(1))))
                @@ ("int_field" :> I(99)) @@ ("key" :> S("11"))
                @@ ("list_field" :> L(<<S("1")>>)),
             ("int_field" :> I(1000)) @@ ("key" :> S("111")) }
      [] model = "list_of_dict" ->
           { ("key" :> S("a")) @@ ("l" :> L(<<D(("a" :> I(1)) @@ ("b" :> None)), None>>)),
             ("key" :> S("b"))
                @@ ("l" :> L(<<D(("a" :> S("x"))), D(("a" :> I(2)) @@ ("b" :> S("y")))>>)),
             ("key" :> S("a"))
                @@ ("l" :> L(<<D(("a" :> I(1))), D(("b" :> S("y")))>>)) }
      [] OTHER ->
           { ("key" :> S("a")) @@ ("d" :> D(("a" :> I(1)))),
             ("key" :> S("b")) @@ ("d" :> D(("a" :> I(2)) @@ ("b" :> S("y"))))
                @@ ("l" :> L(<<I(1), None, I(3)>>)),
             ("key" :> S("a")) @@ ("d.b" :> S("x")),
             ("key" :> S("b")) @@ ("l" :> L(<<I(2)>>)) @@ ("d.a" :> I(5)),
             ("key" :> S("a")) @@ ("d" :> D(("a" :> S("x")))),
             ("key" :> S("b")) @@ ("l" :> L(<<I(1), S("two"), I(3)>>)) }

Queries ==
    CASE model = "key_value" ->
           { ("key" :> S("a")), ("key" :> S("b")), ("value" :> I(5)),
             ("key" :> I(1)), ("unknown" :> I(1)), EmptyDict }
      [] model = "unique" ->
           { ("key" :> S("a")), ("key" :> S("b")), ("optional" :> S("B")),
             ("optional" :> S("C")), ("mandatory" :> None) }
      [] model = "two_unique" ->
           { ("key" :> S("a")), ("unique_value" :> I(1)) }
      [] model = "dict_key" ->
           { ("d" :> D(("a" :> I(1)))), ("d.a" :> I(2)) }
      [] model = "auto_inc" ->
           { ("key" :> I(1)), ("key" :> I(2)), ("value" :> S("z")), EmptyDict }
      [] model = "limits" ->
           { ("key" :> S("111")), ("int_field" :> I(99)), EmptyDict }
      [] model = "list_of_dict" ->
           { ("key" :> S("a")), ("l" :> L(<<D(("a" :> S("x")))>>)) }
      [] OTHER ->
           { ("key" :> S("a")), ("d.a" :> I(1)), ("l" :> L(<<I(2)>>)),
             ("d" :> D(("a" :> S("x")))) }

\* the batches handed to add_all: up to two records
Batches ==
    {<<>>} \cup {<<r>> : r \in Records} \cup {<<r1, r2>> : r1 \in Records, r2 \in Records}

(***************************************************************************)
(* Initial state: the model is bound to an empty database and its indexes  *)
(* are created (__init_subclass__).                                        *)
(***************************************************************************)
Callers == 1..NumCallers

NoCall ==
    [op |-> "", arg |-> None, before |-> <<>>, counters_before |-> EmptyDict,
     filter |-> EmptyDict, exc |-> "", message |-> "", errors |-> EmptyDict,
     received_data |-> None, ret |-> None, calls |-> <<>>]

\* a client with no call in flight
Idle ==
    [op |-> "", pos |-> "idle", items |-> <<>>, docs |-> <<>>, failed |-> FALSE,
     fields |-> EmptyDict, keys |-> EmptyDict, previous |-> <<>>,
     target |-> <<>>, new |-> <<>>, exc |-> "", ret |-> None]

NoValidation ==
    [context |-> "", level |-> "", field |-> <<>>, model_as_dict |-> EmptyDict,
     errors |-> EmptyDict, argument |-> EmptyDict]

Init ==
    /\ model \in DOMAIN Models
    /\ collection = <<>>
    /\ counters = EmptyDict
    /\ next_id = 1
    /\ uidx = _create_indexes(Models[model], "Unique")
    /\ last = NoCall
    /\ pc = [caller \in Callers |-> "idle"]
    /\ counter_element = [caller \in Callers |-> EmptyDict]
    /\ applied = <<>>
    /\ returned = <<>>
    /\ validated = NoValidation
    /\ constructed = <<>>
    /\ threads = [thread \in 1..NumThreads |-> Idle]

(***************************************************************************)
(* Actions of the sequential specification: one whole call each.           *)
(***************************************************************************)
Bounded(outcome) ==
    /\ outcome.next_id <= MaxInserts + 1
    /\ \A field_name \in DOMAIN outcome.counters :
          outcome.counters[field_name] <= MaxCounter

Call(op, arg, filter, outcome) ==
    /\ Bounded(outcome)
    /\ collection' = outcome.collection
    /\ counters' = outcome.counters
    /\ next_id' = outcome.next_id
    /\ last' = [op |-> op, arg |-> arg, before |-> collection,
                counters_before |-> counters, filter |-> filter,
                exc |-> outcome.exc, message |-> outcome.message,
                errors |-> outcome.errors,
                received_data |-> outcome.received_data,
                ret |-> outcome.ret, calls |-> outcome.calls]
    /\ UNCHANGED <<model, uidx, pc, counter_element, applied, returned, validated, constructed,
                   threads>>

Add ==
    \E model_as_dict \in Records :
        Call("add", D(model_as_dict), EmptyDict, add(model_as_dict))

AddAll ==
    \E models_as_list_of_dict \in Batches :
        Call("add_all",
             L([i \in 1..Len(models_as_list_of_dict) |-> D(models_as_list_of_dict[i])]),
             EmptyDict, add_all(models_as_list_of_dict))

\* filter: the lookup key update hands to the collection
UpdateCall(model_as_dict, outcome) ==
    Call("update", D(model_as_dict),
         IF "collection.find_one" \in {outcome.calls[i] : i \in 1..Len(outcome.calls)}
         THEN _to_primary_keys_model(CRUDModel_deserialize_update(cls, model_as_dict))
         ELSE EmptyDict,
         outcome)

Update ==
    \E model_as_dict \in Records :
        UpdateCall(model_as_dict, update(model_as_dict))

GetOne ==
    \E model_to_query \in Queries :
        Call("get", D(model_to_query), EmptyDict, get(model_to_query))

Remove ==
    \E model_to_query \in Queries :
        Call("remove", D(model_to_query), EmptyDict, remove(model_to_query))

Next == Add \/ AddAll \/ Update \/ GetOne \/ Remove

Spec == Init /\ [][Next]_vars

(***************************************************************************)
(* Concurrent callers of _increment on the same collection and field.  The *)
(* find_one_and_update of the driver is one atomic step; the caller then   *)
(* reads counter_element[field_name]['counter'] from what it was handed.   *)
(***************************************************************************)
IncrementedField == "key"

CallsOf(caller) ==
    Cardinality({i \in 1..Len(returned) : returned[i].caller = caller})

IncrementCall(caller) ==
    /\ pc[caller] = "idle"
    /\ CallsOf(caller) < MaxCalls
    /\ pc' = [pc EXCEPT ![caller] = "find_one_and_update"]
    /\ UNCHANGED <<model, collection, counters, next_id, uidx, last,
                   counter_element, applied, returned, validated, constructed,
                   threads>>

IncrementUpdate(caller) ==
    /\ pc[caller] = "find_one_and_update"
    /\ counters' = _increment(counters, IncrementedField)
    /\ counter_element' = [counter_element EXCEPT ![caller] = counters']
    /\ applied' = Append(applied, caller)
    /\ pc' = [pc EXCEPT ![caller] = "return"]
    /\ UNCHANGED <<model, collection, next_id, uidx, last, returned, validated, constructed,
                   threads>>

\* step: the position of this call's update among the updates applied
IncrementReturn(caller) ==
    /\ pc[caller] = "return"
    /\ returned' = Append(returned,
          [caller |-> caller,
           step |-> CHOOSE i \in 1..Len(applied) :
                       /\ applied[i] = caller
                       /\ \A j \in 1..Len(applied) : applied[j] = caller => j <= i,
           value |-> counter_element[caller][IncrementedField]])
    /\ pc' = [pc EXCEPT ![caller] = "idle"]
    /\ UNCHANGED <<model, collection, counters, next_id, uidx, last,
                   counter_element, applied, validated, constructed,
                   threads>>

InitIncrement == Init /\ model = "auto_inc"

NextIncrement ==
    \E caller \in Callers :
        \/ IncrementCall(caller)
        \/ IncrementUpdate(caller)
        \/ IncrementReturn(caller)

SpecIncrement == InitIncrement /\ [][NextIncrement]_vars

(***************************************************************************)
(* Direct calls of the validate_* methods, of a column and of the model.   *)
(***************************************************************************)
Contexts == {"query", "insert", "update"}

\* mappings handed to the validate_* methods only: a value of the wrong type
\* for a dict or list field, an empty dict, a null list
Malformed ==
    CASE model = "nested" ->
           { ("key" :> S("a")) @@ ("d" :> I(3)),
             ("key" :> S("a")) @@ ("d" :> D(EmptyDict)),
             ("key" :> S("a")) @@ ("l" :> S("x")),
             ("key" :> S("a")) @@ ("l" :> None) }
      [] OTHER -> {}

Mappings == Records \cup Queries \cup Malformed

\* the dict values the mappings hold under a field name
NestedMappings(name) ==
    {EmptyDict} \cup
    {model_as_dict[name].d : model_as_dict \in
        {m \in Mappings : name \in DOMAIN m /\ m[name].t = "dict"}}

\* the (column, mapping) pairs validated: the columns of the model with the
\* mappings, the columns of the dict columns with the nested mappings
Probes ==
    {<<cls.fields[i], model_as_dict>> :
        i \in 1..Len(cls.fields), model_as_dict \in Mappings}
    \cup UNION { UNION { {<<cls.fields[i].fields[j], nested>> :
                            nested \in NestedMappings(cls.fields[i].name)} :
                         j \in 1..Len(cls.fields[i].fields)} :
                 i \in 1..Len(cls.fields)}

FieldValidate(context, field, model_as_dict) ==
    CASE context = "query" -> field_validate_query(field, model_as_dict)
      [] context = "insert" -> field_validate_insert(field, model_as_dict)
      [] OTHER -> field_validate_update(field, model_as_dict)

ModelValidate(context, model_as_dict) ==
    CASE context = "query" -> CRUDModel_validate_query(cls, model_as_dict)
      [] context = "insert" -> CRUDModel_validate_insert(cls, model_as_dict)
      [] OTHER -> CRUDModel_validate_update(cls, model_as_dict)

ValidateField ==
    \E context \in Contexts, probe \in Probes :
        /\ validated' = [context |-> context, level |-> "field",
                         field |-> <<probe[1]>>, model_as_dict |-> probe[2],
                         errors |-> FieldValidate(context, probe[1], probe[2]),
                         argument |-> probe[2]]
        /\ UNCHANGED <<model, collection, counters, next_id, uidx, last, pc,
                       counter_element, applied, returned, constructed,
                   threads>>

ValidateModel ==
    \E context \in Contexts, model_as_dict \in Mappings :
        /\ validated' = [context |-> context, level |-> "model",
                         field |-> <<>>, model_as_dict |-> model_as_dict,
                         errors |-> ModelValidate(context, model_as_dict),
                         argument |->
                             Argument(model_as_dict,
                                 FoldDotNotation(cls, model_as_dict, model_as_dict,
                                     UnknownFields(cls, model_as_dict)),
                                 copy_deepcopy({""} \cup
                                     {key \in DOMAIN model_as_dict :
                                         model_as_dict[key].t = "dict"}))]
        /\ UNCHANGED <<model, collection, counters, next_id, uidx, last, pc,
                       counter_element, applied, returned, constructed,
                   threads>>

NextValidate == ValidateField \/ ValidateModel

SpecValidate == Init /\ [][NextValidate]_vars

(***************************************************************************)
(* Properties.                                                             *)
(***************************************************************************)
Calls == {last.calls[i] : i \in 1..Len(last.calls)}

PrimaryKeyNames ==
    {cls.fields[i].name : i \in {j \in 1..Len(cls.fields) :
                                   cls.fields[j].is_primary_key}}

\* the primary-key values of a stored or serialized record
PrimaryKeyOf(record) ==
    [name \in (DOMAIN record) \cap PrimaryKeyNames |-> record[name]]

\* C1: round trip: after add(r) has returned, get(<primary key of the record>)
\* returns normally and returns the very mapping add returned.
C1_RoundTrip ==
    (last.op = "add" /\ last.exc = "") =>
        LET fetched == get(PrimaryKeyOf(last.ret.d))
        IN  fetched.exc = "" /\ fetched.ret = last.ret

\* C2: on the model declaring key as a primary key only: an add whose key is
\* already stored fails with 'This item already exists.' and stores nothing,
\* and no two stored records share their primary-key values.
C2_PrimaryKeyIsUnique ==
    model = "key_value" =>
        /\ \A i, j \in 1..Len(collection) :
              i # j => PrimaryKeyOf(collection[i]) # PrimaryKeyOf(collection[j])
        /\ (/\ last.op = "add"
            /\ DOMAIN CRUDModel_validate_insert(cls, last.arg.d) = {}
            /\ \E i \in 1..Len(last.before) :
                  PrimaryKeyOf(last.before[i]) = PrimaryKeyOf(last.arg.d))
           => /\ last.exc = "ValidationFailed"
              /\ last.message = "This item already exists."
              /\ collection = last.before

\* the field name is set by the fields, directly or through a dotted key
Touched(fields, name) ==
    \/ name \in DOMAIN fields
    \/ \E key \in DOMAIN fields : Len(Split(key)) = 2 /\ Split(key)[1] = name

\* the known fields of the input that hold a value
SuppliedKeys(model_as_dict) ==
    {key \in DOMAIN model_as_dict :
        /\ ~IsNone(model_as_dict[key])
        /\ \E i \in 1..Len(cls.fields) :
              \/ cls.fields[i].name = key
              \/ /\ Len(Split(key)) = 2
                 /\ Split(key)[1] = cls.fields[i].name
                 /\ cls.fields[i].field_type = "dict"}

\* C3: a successful update returns (previous, new): previous is the matched
\* record as stored before the call, serialized; new is that record after the
\* call, serialized; the record holds every non-null field supplied, every
\* field (and nested field) not supplied keeps its value, and no other
\* record changes.
C3_UpdateMerges ==
    (last.op = "update" /\ last.exc = "") =>
        LET supplied == CRUDModel_deserialize_update(cls, last.arg.d)
        IN  /\ DOMAIN supplied = SuppliedKeys(last.arg.d)
            /\ Len(collection) = Len(last.before)
            /\ \E i \in 1..Len(collection) :
                  LET old == last.before[i]
                      cur == collection[i]
                  IN  /\ Matches(old, last.filter)
                      /\ \A j \in 1..Len(collection) :
                            j # i => collection[j] = last.before[j]
                      /\ last.ret.l[1] = D(CRUDModel_serialize(cls, old))
                      /\ last.ret.l[2] = D(CRUDModel_serialize(cls, cur))
                      /\ \A key \in DOMAIN supplied :
                            LookupPath(cur, key) = supplied[key]
                      /\ DOMAIN cur =
                            DOMAIN old \cup {name \in PrimaryKeyNames \cup
                                {cls.fields[k].name : k \in 1..Len(cls.fields)} :
                                    Touched(supplied, name)}
                      /\ \A name \in DOMAIN old :
                            \/ name \in DOMAIN supplied
                            \/ /\ ~Touched(supplied, name)
                               /\ cur[name] = old[name]
                            \/ /\ Touched(supplied, name)
                               /\ \A child \in DOMAIN old[name].d :
                                     \/ DotJoin(name, child) \in DOMAIN supplied
                                     \/ Get(cur[name].d, child) = old[name].d[child]

\* an update has merged: it changed a record that holds a field not supplied
C3_Witness ==
    /\ last.op = "update" /\ last.exc = ""
    /\ last.ret.l[1] # last.ret.l[2]
    /\ \E i \in 1..Len(collection) :
          /\ collection[i] # last.before[i]
          /\ \E name \in DOMAIN collection[i] :
                /\ name \notin {"_id"} \cup PrimaryKeyNames
                /\ ~Touched(last.arg.d, name)

\* C4: an update that passes validation and whose primary-key lookup matches
\* no stored record fails with ModelCouldNotBeFound, leaves the collection
\* and the counters unchanged and does not invoke the audit hook.
C4_UpdateNotFound ==
    (/\ last.op = "update"
     /\ DOMAIN last.arg.d # {}
     /\ DOMAIN CRUDModel_validate_update(cls, last.arg.d) = {}
     /\ \A i \in 1..Len(last.before) :
           ~Matches(last.before[i],
                    PrimaryKeyOf(CRUDModel_deserialize_update(cls, last.arg.d))))
    => /\ last.exc = "ModelCouldNotBeFound"
       /\ collection = last.before
       /\ counters = last.counters_before
       /\ "audit_update" \notin Calls
       /\ "collection.update_one" \notin Calls

\* an update found no record in a non-empty collection of an audited model
C4_Witness ==
    /\ last.op = "update"
    /\ last.exc = "ModelCouldNotBeFound"
    /\ cls.audit_model
    /\ Len(last.before) > 0

\* C5: whenever update passes validation, the lookup key handed to the
\* collection holds a value for every primary-key field of the model.
C5_LookupHoldsPrimaryKey ==
    (last.op = "update" /\ "collection.find_one" \in Calls) =>
        \A name \in PrimaryKeyNames :
            name \in DOMAIN last.filter /\ ~IsNone(last.filter[name])

\* positions (from 0) of the items of a batch that fail insert validation
InvalidPositions(batch) ==
    {i - 1 : i \in {j \in 1..Len(batch) :
                      DOMAIN CRUDModel_validate_insert(cls, batch[j].d) # {}}}

\* C6: add_all of a batch with at least one invalid item raises
\* ValidationFailed whose errors are keyed by exactly the positions of the
\* invalid items, each with the errors of that item, and the collection holds
\* what it held before.
C6_AddAllAborts ==
    (last.op = "add_all" /\ InvalidPositions(last.arg.l) # {}) =>
        /\ last.exc = "ValidationFailed"
        /\ DOMAIN last.errors = InvalidPositions(last.arg.l)
        /\ \A position \in DOMAIN last.errors :
              last.errors[position] =
                  CRUDModel_validate_insert(cls, last.arg.l[position + 1].d)
        /\ collection = last.before
        /\ "collection.insert_many" \notin Calls

\* item 0 is invalid, item 1 is valid: the error is keyed by 0 only
C6_Witness ==
    /\ last.op = "add_all"
    /\ Len(last.arg.l) = 2
    /\ InvalidPositions(last.arg.l) = {0}
    /\ DOMAIN last.errors = {0}

\* C7: when add, add_all or update fails validation, no storage operation
\* has been invoked, neither on the collection nor on the counters.
C7_ValidationBeforeStorage ==
    (/\ last.op \in {"add", "add_all", "update"}
     /\ last.exc = "ValidationFailed"
     /\ (DOMAIN last.errors # {} \/ last.message = "No data provided."))
    => /\ last.calls = <<>>
       /\ collection = last.before
       /\ counters = last.counters_before

\* C8: add_all([]) fails with ValidationFailed 'No data provided.' and makes
\* no call to the collection, the counters or the audit.
C8_AddAllEmpty ==
    (last.op = "add_all" /\ Len(last.arg.l) = 0) =>
        /\ last.exc = "ValidationFailed"
        /\ last.message = "No data provided."
        /\ last.calls = <<>>
        /\ collection = last.before
        /\ counters = last.counters_before

\* add_all([]) was called on a collection that holds records
C8_Witness ==
    /\ last.op = "add_all"
    /\ Len(last.arg.l) = 0
    /\ last.exc = "ValidationFailed"
    /\ Len(collection) > 0

\* C9: the values concurrent _increment calls return are pairwise distinct,
\* increase strictly in the order the atomic updates were applied, and the
\* first update on a missing counter document returns 1.
C9_IncrementDistinctIncreasing ==
    \A i, j \in 1..Len(returned) :
        /\ (i # j => returned[i].value # returned[j].value)
        /\ (returned[i].step < returned[j].step
               => returned[i].value < returned[j].value)
        /\ (returned[i].step = 1 => returned[i].value = 1)

\* three callers have returned, one of them before a caller whose update was
\* applied earlier
C9_Witness ==
    /\ {returned[i].caller : i \in 1..Len(returned)} = Callers
    /\ \E i, j \in 1..Len(returned) :
          i < j /\ returned[i].step > returned[j].step

Missing == <<"Missing data for required field.">>

YieldsMissing(errors, name) == name \in DOMAIN errors /\ errors[name] = Missing

NeverMissing(errors) == \A key \in DOMAIN errors : errors[key] # Missing

\* C10: for every non-nullable field, validating a mapping that lacks the key
\* (or holds null) under insert or update, through the field and through the
\* model, yields the 'Missing data for required field.' error for that key;
\* under query it never does.
C10_MissingAlwaysReported ==
    /\ validated.context = "query" => NeverMissing(validated.errors)
    /\ (validated.level = "field" /\ validated.context \in {"insert", "update"}) =>
          LET field == validated.field[1]
          IN  (~field.is_nullable /\ IsNone(Get(validated.model_as_dict, field.name)))
                  => validated.errors = (field.name :> Missing)
    /\ (validated.level = "model" /\ validated.context \in {"insert", "update"}) =>
          \A i \in 1..Len(cls.fields) :
              (/\ ~cls.fields[i].is_nullable
               /\ IsNone(Get(validated.model_as_dict, cls.fields[i].name)))
              => YieldsMissing(validated.errors, cls.fields[i].name)

\* C10 as amended: the field itself always reports the missing value on
\* insert and update; the model reports it on insert for every non-empty
\* mapping, on update for a non-empty mapping only when the field is a
\* primary key or its key is present (with null), and an absent field that is
\* no primary key is not reported on update; query never reports it.
C10_MissingReported ==
    /\ validated.context = "query" => NeverMissing(validated.errors)
    /\ (validated.level = "field" /\ validated.context \in {"insert", "update"}) =>
          LET field == validated.field[1]
          IN  (~field.is_nullable /\ IsNone(Get(validated.model_as_dict, field.name)))
                  => validated.errors = (field.name :> Missing)
    /\ (/\ validated.level = "model"
        /\ validated.context \in {"insert", "update"}
        /\ DOMAIN validated.model_as_dict # {}
        /\ ~Raised(validated.errors)) =>
          \A i \in 1..Len(cls.fields) :
              LET field == cls.fields[i]
                  present == field.name \in DOMAIN validated.model_as_dict
                  folded == Touched(validated.model_as_dict, field.name) /\ ~present
              IN  (/\ ~field.is_nullable
                   /\ IsNone(Get(validated.model_as_dict, field.name))
                   /\ ~folded)
                  => IF validated.context = "insert" \/ field.is_primary_key \/ present
                     THEN YieldsMissing(validated.errors, field.name)
                     ELSE field.name \notin DOMAIN validated.errors

\* the model validated an update that lacks a non-nullable field which is no
\* primary key, and one that lacks its primary key
C10_Witness ==
    /\ validated.level = "model"
    /\ validated.context = "update"
    /\ DOMAIN validated.model_as_dict # {}
    /\ \E i \in 1..Len(cls.fields) :
          /\ ~cls.fields[i].is_nullable
          /\ ~cls.fields[i].is_primary_key
          /\ cls.fields[i].name \notin DOMAIN validated.model_as_dict
          /\ cls.fields[i].name \notin DOMAIN validated.errors
    /\ \E i \in 1..Len(cls.fields) :
          /\ cls.fields[i].is_primary_key
          /\ YieldsMissing(validated.errors, cls.fields[i].name)

\* the records stored before the last call that match its deserialized filter
MatchedBefore ==
    LET filter == CRUDModel_deserialize_query(cls, last.arg.d)
        matching == {i \in 1..Len(last.before) :
                        \A key \in DOMAIN filter :
                            LookupPath(last.before[i], key) = filter[key]}
    IN  [matching |-> matching,
         first |-> IF matching = {} THEN 0
                   ELSE CHOOSE i \in matching : \A j \in matching : i <= j]

\* C11: get(filter) with a valid filter: more than one stored record matching
\* the deserialized filter fails with ValidationFailed 'More than one
\* result...'; exactly one returns that record serialized; none returns the
\* empty mapping; in no case (an invalid filter included) is the collection
\* or a counter modified.
C11_GetOne ==
    (last.op = "get") =>
        /\ collection = last.before
        /\ counters = last.counters_before
        /\ DOMAIN CRUDModel_validate_query(cls, last.arg.d) = {} =>
              CASE Cardinality(MatchedBefore.matching) > 1 ->
                     /\ last.exc = "ValidationFailed"
                     /\ last.message = "More than one result: Consider another filtering."
                [] Cardinality(MatchedBefore.matching) = 1 ->
                     /\ last.exc = ""
                     /\ last.ret = D(CRUDModel_serialize(cls,
                                         last.before[MatchedBefore.first]))
                [] OTHER ->
                     /\ last.exc = ""
                     /\ last.ret = D(EmptyDict)

\* a get matched two stored records
C11_Witness ==
    /\ last.op = "get"
    /\ last.exc = "ValidationFailed"
    /\ last.message = "More than one result: Consider another filtering."
    /\ Cardinality(MatchedBefore.matching) = 2

\* C12: in every add, add_all, update and remove, an audit hook (audit_add,
\* audit_update, audit_remove) is invoked only after the storage mutation it
\* reports (insert, update, delete) has returned, and no audit hook is
\* invoked by a call that fails.
C12_AuditAfterMutation ==
    LET MutationOf(audit_call) ==
            CASE audit_call = "audit_add" ->
                   {"collection.insert_one", "collection.insert_many"}
              [] audit_call = "audit_update" -> {"collection.update_one"}
              [] audit_call = "audit_remove" -> {"collection.delete_many"}
              [] OTHER -> {}
    IN
    (last.op \in {"add", "add_all", "update", "remove"}) =>
        /\ \A i \in 1..Len(last.calls) :
              MutationOf(last.calls[i]) # {} =>
                  \E j \in 1..(i - 1) : last.calls[j] \in MutationOf(last.calls[i])
        /\ last.exc # "" =>
              \A i \in 1..Len(last.calls) : MutationOf(last.calls[i]) = {}


\* C13: when the collection rejects the insert_one issued by add(record)
\* with a duplicate key (a stored record holds the same values for the
\* fields of the unique index), add raises ValidationFailed with the message
\* 'This item already exists.', the collection is what it was before the
\* call and audit_add is not invoked.
C13_DuplicateRejected ==
    (/\ last.op = "add"
     /\ DOMAIN CRUDModel_validate_insert(cls, last.arg.d) = {}
     /\ DuplicateKeyError(last.before, uidx,
            deserialize_insert(last.arg.d, last.counters_before).model_as_dict)) =>
        /\ last.exc = "ValidationFailed"
        /\ last.message = "This item already exists."
        /\ collection = last.before
        /\ "collection.insert_one" \in Calls
        /\ "audit_add" \notin Calls

\* an add to an audited model was rejected as a duplicate
C13_Witness ==
    /\ last.op = "add"
    /\ last.message = "This item already exists."
    /\ cls.audit_model
    /\ Len(last.before) > 0
    /\ collection = last.before


\* C14: remove(filter) with a valid filter deletes every stored record that
\* matches the deserialized filter and no other record, and returns the
\* number of records deleted (0 when nothing matches); with a filter that
\* fails query validation it raises ValidationFailed and deletes nothing.
C14_RemoveDeletesMatches ==
    (last.op = "remove") =>
        IF DOMAIN CRUDModel_validate_query(cls, last.arg.d) # {}
        THEN /\ collection = last.before
             /\ last.exc # ""
             /\ ~Raised(CRUDModel_validate_query(cls, last.arg.d)) =>
                   /\ last.exc = "ValidationFailed"
                   /\ last.errors = CRUDModel_validate_query(cls, last.arg.d)
        ELSE /\ last.exc = ""
             /\ last.ret = I(Cardinality(MatchedBefore.matching))
             /\ collection = SelectSeq(last.before, LAMBDA document :
                    \E i \in (1..Len(last.before)) \ MatchedBefore.matching :
                        last.before[i] = document)

\* a remove deleted one of two stored records and kept the other
C14_Witness ==
    /\ last.op = "remove"
    /\ last.exc = ""
    /\ Len(last.before) = 2
    /\ last.ret = I(1)
    /\ Len(collection) = 1


\* C15: for an auto incremented field, the value stored and returned by a
\* successful add, and by each item of a successful add_all, is the value
\* returned by the counter increment made for that record (the n-th record of
\* the call gets the counter before the call plus n), whatever value the
\* caller supplied for the field; update never increments a counter.
C15_AutoIncrementFromCounter ==
    LET AutoIncrementNames ==
            {cls.fields[i].name : i \in {j \in 1..Len(cls.fields) :
                                           cls.fields[j].should_auto_increment}}
        CounterBefore(name) ==
            IF name \in DOMAIN last.counters_before
            THEN last.counters_before[name] ELSE 0
    IN
    \A name \in AutoIncrementNames :
        /\ (last.op = "add" /\ last.exc = "") =>
              /\ last.ret.d[name] = I(CounterBefore(name) + 1)
              /\ collection[Len(collection)][name] = I(CounterBefore(name) + 1)
              /\ counters[name] = CounterBefore(name) + 1
        /\ (last.op = "add_all" /\ last.exc = "") =>
              /\ Len(collection) = Len(last.before) + Len(last.arg.l)
              /\ \A n \in 1..Len(last.arg.l) :
                    /\ last.ret.l[n].d[name] = I(CounterBefore(name) + n)
                    /\ collection[Len(last.before) + n][name] = I(CounterBefore(name) + n)
              /\ counters[name] = CounterBefore(name) + Len(last.arg.l)
        /\ (last.op = "update") =>
              /\ counters = last.counters_before
              /\ "counters.find_one_and_update" \notin Calls

\* an add that supplied 7 for the auto incremented key stored the counter value
C15_Witness ==
    /\ last.op = "add"
    /\ last.exc = ""
    /\ model = "auto_inc"
    /\ "key" \in DOMAIN last.arg.d
    /\ last.arg.d["key"] = I(7)
    /\ last.ret.d["key"] = I(2)


\* C16: validating {field: {a: "x"}} under insert or update, for a dict
\* column with children a (non-nullable int) and b (optional str), yields an
\* error keyed 'field.a' (not a valid int) and none keyed 'field.b'.  In
\* general, when the dict column's own absence/type check fails the result
\* is that error alone, keyed by the field name, and no child is validated;
\* when it passes, each error of a validated child is reported under the key
\* '<parent>.<child>' and nothing is reported under another child key.
C16_DictColumnErrors ==
    LET ChildNames(self) == {self.fields[j].name : j \in 1..Len(self.fields)}
        \* the absence and type check of the dict column itself
        OwnErrors(context, self, model_as_dict) ==
            IF context = "insert" THEN Column_validate_insert(self, model_as_dict)
            ELSE Column_validate_update(self, model_as_dict)
        \* whether the nested model validates this child of the given dict
        ChildValidated(context, child, value_dict) ==
            /\ DOMAIN value_dict # {}
            /\ context = "update" =>
                  (child.name \in DOMAIN value_dict \/ child.is_primary_key)
    IN
    /\ (/\ validated.level = "field"
        /\ validated.context \in {"insert", "update"}
        /\ validated.field[1].kind = "DictColumn"
        /\ ~Raised(validated.errors)) =>
          LET self == validated.field[1]
              value == Get(validated.model_as_dict, self.name)
              own == OwnErrors(validated.context, self, validated.model_as_dict)
          IN  /\ DOMAIN own # {} =>
                    /\ validated.errors = own
                    /\ DOMAIN validated.errors = {self.name}
              /\ (DOMAIN own = {} /\ ~IsNone(value)) =>
                    /\ self.name \notin DOMAIN validated.errors
                    /\ DOMAIN validated.errors \subseteq
                          {DotJoin(self.name, name) : name \in ChildNames(self) \cup {""}}
                    /\ \A j \in 1..Len(self.fields) :
                          LET child == self.fields[j]
                              key == DotJoin(self.name, child.name)
                              child_errors == FieldValidate(validated.context, child, value.d)
                          IN  IF /\ ChildValidated(validated.context, child, value.d)
                                 /\ child.name \in DOMAIN child_errors
                              THEN /\ key \in DOMAIN validated.errors
                                   /\ validated.errors[key] = child_errors[child.name]
                              ELSE key \notin DOMAIN validated.errors
              /\ value = D(("a" :> S("x"))) =>
                    validated.errors = ("d.a" :> <<"Not a valid int.">>)
    /\ (/\ validated.level = "model"
        /\ validated.context \in {"insert", "update"}
        /\ model = "nested"
        /\ Get(validated.model_as_dict, "d") = D(("a" :> S("x")))) =>
          /\ "d.a" \in DOMAIN validated.errors
          /\ validated.errors["d.a"] = <<"Not a valid int.">>
          /\ "d.b" \notin DOMAIN validated.errors

\* the dict column validated {d: {a: "x"}} under update and reported 'd.a'
C16_Witness ==
    /\ validated.level = "field"
    /\ validated.context = "update"
    /\ validated.field # <<>>
    /\ validated.field[1].kind = "DictColumn"
    /\ Get(validated.model_as_dict, "d") = D(("a" :> S("x")))
    /\ "d.a" \in DOMAIN validated.errors


\* C17: the error keys a list column produces for a list value are exactly
\* '<field>[<i>]' for the positions i whose item fails the element spec,
\* whatever the element spec is (an int column, a dict column);
\* {field: [1, "two", 3]} with int elements yields the single key 'field[1]'.
C17_ListColumnKeys ==
    LET \* the positions (from 0) of the items that fail the element spec
        FailingPositions(context, self, values) ==
            {i - 1 : i \in {j \in 1..Len(values) :
                DOMAIN FieldValidate(context, self.list_item_column[1],
                                     (self.name :> values[j])) # {}}}
    IN
    (/\ validated.level = "field"
     /\ validated.field[1].kind = "ListColumn"
     /\ ~Raised(validated.errors)
     /\ Get(validated.model_as_dict, validated.field[1].name).t = "list") =>
        DOMAIN validated.errors =
            {IndexJoin(validated.field[1].name, i) :
                i \in FailingPositions(validated.context, validated.field[1],
                         validated.model_as_dict[validated.field[1].name].l)}


\* C18: for every stored record, the mapping serialize returns for it holds a
\* key for every declared nullable field (the field's default_value when the
\* record has no value for it), no key for an absent non-nullable field and
\* no key that is not a declared field name; plain, dict and list fields
\* alike.
C18_StableShape ==
    \A i \in 1..Len(collection) :
        /\ DOMAIN CRUDModel_serialize(cls, collection[i])
              \subseteq {cls.fields[j].name : j \in 1..Len(cls.fields)}
        /\ \A j \in 1..Len(cls.fields) :
              (cls.fields[j].name \notin DOMAIN collection[i]) =>
                  IF cls.fields[j].is_nullable
                  THEN /\ cls.fields[j].name \in DOMAIN CRUDModel_serialize(cls, collection[i])
                       /\ CRUDModel_serialize(cls, collection[i])[cls.fields[j].name]
                             = cls.fields[j].default_value
                  ELSE cls.fields[j].name \notin DOMAIN CRUDModel_serialize(cls, collection[i])


\* the limits the fields of the limits model are declared with
DeclaredLimits ==
    [dict_field |-> [minimum |-> 2, maximum |-> 3],
     int_field |-> [minimum |-> 100, maximum |-> 999],
     key |-> [minimum |-> 3, maximum |-> 4],
     list_field |-> [minimum |-> 2, maximum |-> 3]]

\* what a limit is compared with: the value of a number, the length of a
\* string, a list or a dict
Measure(value) ==
    CASE value.t = "int" -> value.i
      [] value.t = "str" -> Len(value.s)
      [] value.t = "list" -> Len(value.l)
      [] OTHER -> Cardinality(DOMAIN value.d)

\* C19: add of a record with a value outside the min_value/max_value, or of
\* a length outside the min_length/max_length, its field is declared with
\* fails with ValidationFailed, one error entry per out-of-limit field and
\* received_data the submitted record, and stores nothing; a record with
\* every value within its limits is accepted and returned as submitted.
C19_LimitsEnforced ==
    LET \* the fields whose value lies outside the declared limits
        OutsideLimits(model_as_dict) ==
            {name \in (DOMAIN model_as_dict) \cap (DOMAIN DeclaredLimits) :
                \/ Measure(model_as_dict[name]) < DeclaredLimits[name].minimum
                \/ Measure(model_as_dict[name]) > DeclaredLimits[name].maximum}
    IN
    (model = "limits" /\ last.op = "add" /\ DOMAIN last.arg.d # {}) =>
        IF OutsideLimits(last.arg.d) # {}
        THEN /\ last.exc = "ValidationFailed"
             /\ DOMAIN last.errors = OutsideLimits(last.arg.d)
             /\ last.received_data = last.arg
             /\ collection = last.before
        ELSE /\ last.exc = ""
             /\ DOMAIN last.arg.d = DOMAIN DeclaredLimits => last.ret = last.arg


\* no null in the value of a column, nor in its children or its items
RECURSIVE NullFree(_, _)
NullFree(field, value) ==
    /\ ~IsNone(value)
    /\ (field.kind = "DictColumn") =>
          \A j \in 1..Len(field.fields) :
              (field.fields[j].name \in DOMAIN value.d) =>
                  NullFree(field.fields[j], value.d[field.fields[j].name])
    /\ (field.kind = "ListColumn") =>
          \A i \in 1..Len(value.l) : NullFree(field.list_item_column[1], value.l[i])

\* no key of the mapping holds null and no declared field holds one below
NoNullSlot(model_as_dict) ==
    /\ \A key \in DOMAIN model_as_dict : ~IsNone(model_as_dict[key])
    /\ \A j \in 1..Len(cls.fields) :
          (cls.fields[j].name \in DOMAIN model_as_dict) =>
              NullFree(cls.fields[j], model_as_dict[cls.fields[j].name])

\* C20: an explicit null is never persisted: the mapping deserialize_insert or
\* deserialize_update makes of a valid mapping holds null in no field slot, at
\* any depth reached through dict column children and list column items; no
\* stored record holds a null; an update given {field: null} leaves the
\* stored value of that field as it was.
C20_NullNeverPersisted ==
    /\ \A i \in 1..Len(collection) : NoNullSlot(collection[i])
    /\ (last.op = "add" /\ DOMAIN CRUDModel_validate_insert(cls, last.arg.d) = {}) =>
          NoNullSlot(CRUDModel_deserialize_insert(cls, last.arg.d))
    /\ (last.op = "update" /\ DOMAIN CRUDModel_validate_update(cls, last.arg.d) = {}) =>
          /\ NoNullSlot(CRUDModel_deserialize_update(cls, last.arg.d))
          /\ Len(collection) = Len(last.before)
          /\ \A name \in DOMAIN last.arg.d :
                IsNone(last.arg.d[name]) =>
                    \A i \in 1..Len(collection) :
                        /\ name \in DOMAIN collection[i] <=> name \in DOMAIN last.before[i]
                        /\ Get(collection[i], name) = Get(last.before[i], name)

\* an update given {value: null} found its record and left the stored 5 alone
C20_Witness ==
    /\ last.op = "update"
    /\ last.exc = ""
    /\ "value" \in DOMAIN last.arg.d
    /\ IsNone(last.arg.d["value"])
    /\ \E i \in 1..Len(collection) :
          /\ Matches(collection[i], last.filter)
          /\ Get(collection[i], "value") = I(5)


\* C21: unknown input fields (neither a declared field nor a dotted path
\* under a declared dict field) are dropped, never rejected and never
\* forwarded: the errors of validate_query / validate_insert / validate_update
\* are those of the mapping without its unknown keys, and every key of the
\* mapping deserialize_query / deserialize_insert / deserialize_update hands
\* to the collection is a declared field name or a dotted path whose first
\* segment is a declared dict field.
C21_UnknownFieldsDropped ==
    LET Unknown(m) ==
            {k \in UnknownFields(cls, m) :
                Len(_handle_dot_notation(cls, k, m[k])[1]) = 0}
        Without(m) == [k \in (DOMAIN m) \ Unknown(m) |-> m[k]]
        Declared == {cls.fields[j].name : j \in 1..Len(cls.fields)}
        DictNames == {cls.fields[j].name : j \in {i \in 1..Len(cls.fields) :
                                                   cls.fields[i].field_type = "dict"}}
        Allowed(key) ==
            \/ key \in Declared
            \/ \E e \in DotTable : e[3] = key /\ e[1] \in DictNames
    IN  /\ (last.op \in {"get", "remove"}) =>
              /\ CRUDModel_validate_query(cls, last.arg.d)
                    = CRUDModel_validate_query(cls, Without(last.arg.d))
              /\ DOMAIN CRUDModel_validate_query(cls, last.arg.d) = {} =>
                    \A key \in DOMAIN CRUDModel_deserialize_query(cls, last.arg.d) :
                        Allowed(key)
        /\ (last.op = "add" /\ DOMAIN Without(last.arg.d) # {}) =>
              /\ CRUDModel_validate_insert(cls, last.arg.d)
                    = CRUDModel_validate_insert(cls, Without(last.arg.d))
              /\ DOMAIN CRUDModel_validate_insert(cls, last.arg.d) = {} =>
                    \A key \in DOMAIN CRUDModel_deserialize_insert(cls, last.arg.d) :
                        Allowed(key)
        /\ (last.op = "update" /\ DOMAIN Without(last.arg.d) # {}) =>
              /\ CRUDModel_validate_update(cls, last.arg.d)
                    = CRUDModel_validate_update(cls, Without(last.arg.d))
              /\ DOMAIN CRUDModel_validate_update(cls, last.arg.d) = {} =>
                    \A key \in DOMAIN CRUDModel_deserialize_update(cls, last.arg.d) :
                        Allowed(key)

\* an update given an unknown field went through and stored nothing under it
C21_Witness ==
    /\ last.op = "update"
    /\ last.exc = ""
    /\ "unknown" \in DOMAIN last.arg.d
    /\ Len(collection) > 0
    /\ \A i \in 1..Len(collection) : "unknown" \notin DOMAIN collection[i]


\* C22 as stated: in the query, insert and update contexts alike, a dotted key
\* 'parent.child' (parent a declared dict field) with a value that is not
\* null is still a key of the deserialized mapping, holding the value.
C22_DottedKeyKept ==
    LET Dotted(m) ==
            {k \in UnknownFields(cls, m) :
                /\ Len(_handle_dot_notation(cls, k, m[k])[1]) > 0
                /\ ~IsNone(m[k])
                /\ \E j \in 1..Len(_handle_dot_notation(cls, k, m[k])[1][1].fields) :
                      _handle_dot_notation(cls, k, m[k])[1][1].fields[j].name
                          \in DOMAIN _handle_dot_notation(cls, k, m[k])[2]}
    IN  /\ (/\ last.op \in {"get", "remove"}
            /\ DOMAIN CRUDModel_validate_query(cls, last.arg.d) = {}) =>
              \A k \in Dotted(last.arg.d) :
                  /\ k \in DOMAIN CRUDModel_deserialize_query(cls, last.arg.d)
                  /\ CRUDModel_deserialize_query(cls, last.arg.d)[k] = last.arg.d[k]
        /\ (/\ last.op = "update"
            /\ DOMAIN CRUDModel_validate_update(cls, last.arg.d) = {}) =>
              \A k \in Dotted(last.arg.d) :
                  /\ k \in DOMAIN CRUDModel_deserialize_update(cls, last.arg.d)
                  /\ CRUDModel_deserialize_update(cls, last.arg.d)[k] = last.arg.d[k]
        /\ (/\ last.op = "add"
            /\ DOMAIN CRUDModel_validate_insert(cls, last.arg.d) = {}) =>
              \A k \in Dotted(last.arg.d) :
                  /\ k \in DOMAIN CRUDModel_deserialize_insert(cls, last.arg.d)
                  /\ CRUDModel_deserialize_insert(cls, last.arg.d)[k] = last.arg.d[k]

\* C22 amended: in the query and update contexts a dotted key 'parent.child'
\* with a value that is not null is a key of the deserialized mapping,
\* holding the value, and brings no nested 'parent' mapping with it; in the
\* insert context the value is merged into the nested 'parent' mapping, under
\* 'child', and no dotted key is left.
C22_DottedKeyPerContext ==
    LET Handled(m, k) == _handle_dot_notation(cls, k, m[k])
        Dotted(m) ==
            {k \in UnknownFields(cls, m) :
                /\ Len(Handled(m, k)[1]) > 0
                /\ ~IsNone(m[k])
                /\ \E j \in 1..Len(Handled(m, k)[1][1].fields) :
                      Handled(m, k)[1][1].fields[j].name \in DOMAIN Handled(m, k)[2]}
        Parent(m, k) == Handled(m, k)[1][1].name
        Child(m, k) == CHOOSE c \in DOMAIN Handled(m, k)[2] : TRUE
    IN  /\ (/\ last.op \in {"get", "remove"}
            /\ DOMAIN CRUDModel_validate_query(cls, last.arg.d) = {}) =>
              \A k \in Dotted(last.arg.d) :
                  /\ k \in DOMAIN CRUDModel_deserialize_query(cls, last.arg.d)
                  /\ CRUDModel_deserialize_query(cls, last.arg.d)[k] = last.arg.d[k]
                  /\ Parent(last.arg.d, k) \in DOMAIN CRUDModel_deserialize_query(cls, last.arg.d)
                        => Parent(last.arg.d, k) \in DOMAIN last.arg.d
        /\ (/\ last.op = "update"
            /\ DOMAIN CRUDModel_validate_update(cls, last.arg.d) = {}) =>
              \A k \in Dotted(last.arg.d) :
                  /\ k \in DOMAIN CRUDModel_deserialize_update(cls, last.arg.d)
                  /\ CRUDModel_deserialize_update(cls, last.arg.d)[k] = last.arg.d[k]
                  /\ Parent(last.arg.d, k) \in DOMAIN CRUDModel_deserialize_update(cls, last.arg.d)
                        => Parent(last.arg.d, k) \in DOMAIN last.arg.d
        /\ (/\ last.op = "add"
            /\ DOMAIN CRUDModel_validate_insert(cls, last.arg.d) = {}) =>
              \A k \in Dotted(last.arg.d) :
                  /\ k \notin DOMAIN CRUDModel_deserialize_insert(cls, last.arg.d)
                  /\ Parent(last.arg.d, k) \in DOMAIN CRUDModel_deserialize_insert(cls, last.arg.d)
                  /\ CRUDModel_deserialize_insert(cls, last.arg.d)[Parent(last.arg.d, k)]
                        .d[Child(last.arg.d, k)] = last.arg.d[k]

\* a get was given the dotted key 'd.a' and matched on it
C22_Witness ==
    /\ last.op = "get"
    /\ last.exc = ""
    /\ "d.a" \in DOMAIN last.arg.d
    /\ last.ret # D(EmptyDict)


(***************************************************************************)
(* Construction of columns from every combination of keyword arguments.    *)
(***************************************************************************)
\* each keyword argument is left out or given one of its values
ColumnKwargs ==
    LET KwChoice(name, values) ==
            {EmptyDict} \cup {(name :> value) : value \in values}
    IN  {(("name" :> "value") @@ primary) @@ nullable @@ default @@ increment :
            primary \in KwChoice("is_primary_key", BOOLEAN),
            nullable \in KwChoice("is_nullable", BOOLEAN),
            default \in KwChoice("default_value", {None, I(0), I(5), S(""), S("x")}),
            increment \in KwChoice("should_auto_increment", BOOLEAN)}

\* Column(field_type, **kwargs): __init__ returns or raises
Construct ==
    \E field_type \in {"int", "str"}, kwargs \in ColumnKwargs :
        /\ constructed' = <<[field_type |-> field_type, kwargs |-> kwargs,
                             column |-> Column(field_type, kwargs)]>>
        /\ UNCHANGED <<model, collection, counters, next_id, uidx, last, pc,
                       counter_element, applied, returned, validated, threads>>

InitColumn == Init /\ model = "key_value"

SpecColumn == InitColumn /\ [][Construct]_vars

\* C23: every column constructed without raising is not both non-nullable and
\* carrying a default value (any value other than None, the falsy 0 and ''
\* included), and not both non-nullable and auto incremented.
C23_ColumnConsistent ==
    (constructed # <<>> /\ constructed[1].column.raised = "") =>
        /\ ~(~constructed[1].column.is_nullable
             /\ ~IsNone(constructed[1].column.default_value))
        /\ ~(~constructed[1].column.is_nullable
             /\ constructed[1].column.should_auto_increment)


\* C24: a list column given a mapping in which its field is absent or null
\* answers as Column does, in every context and without raising:
\* 'Missing data for required field.' under insert and update when the field
\* is not nullable, no error otherwise; and so does the model when the
\* mapping it validates holds null for a list field.
C24_AbsentListAsColumn ==
    /\ (/\ validated.level = "field"
        /\ validated.field[1].kind = "ListColumn"
        /\ IsNone(Get(validated.model_as_dict, validated.field[1].name))) =>
          validated.errors =
              IF validated.context \in {"insert", "update"}
                 /\ ~validated.field[1].is_nullable
              THEN (validated.field[1].name :> <<"Missing data for required field.">>)
              ELSE EmptyDict
    /\ (/\ validated.level = "model"
        /\ \E j \in 1..Len(cls.fields) :
              /\ cls.fields[j].kind = "ListColumn"
              /\ cls.fields[j].name \in DOMAIN validated.model_as_dict
              /\ IsNone(validated.model_as_dict[cls.fields[j].name])) =>
          ~Raised(validated.errors)


ConcurrentCalls ==
    { [op |-> "add", items |-> <<("value" :> S("x"))>>],
      [op |-> "add_all", items |-> <<("value" :> S("z")), ("value" :> S("x"))>>],
      [op |-> "add_all", items |-> <<("value" :> S("x")), ("value" :> I(1))>>],
      [op |-> "update", items |-> <<("key" :> I(1)) @@ ("value" :> S("y"))>>],
      [op |-> "update", items |-> <<("key" :> I(1)) @@ ("value" :> S("z"))>>],
      [op |-> "remove", items |-> <<("key" :> I(1))>>],
      [op |-> "remove", items |-> <<EmptyDict>>] }

\* the calls a client at its position may be making: a new call of one of
\* the operations when idle (the clients are interchangeable, so they are
\* numbered in the order they start), else the call it has in flight
CallsAt(thread, ops, pos) ==
    IF threads[thread].pos = "idle"
    THEN {call \in ConcurrentCalls :
             /\ call.op \in ops
             /\ \A other \in 1..(thread - 1) : threads[other].pos # "idle"}
    ELSE IF threads[thread].pos = pos
    THEN {[op |-> threads[thread].op, items |-> threads[thread].items]}
    ELSE {}

\* add raises on the invalid item, add_all goes on to the next item and
\* raises after the last one; deserialize_insert of a valid item draws its
\* counter values
ThreadValidatedInsert(thread, call, errors) ==
    IF Raised(errors) \/ DOMAIN errors # {}
    THEN /\ counters' = counters
         /\ threads' = [threads EXCEPT ![thread] =
                [@ EXCEPT !.op = call.op,
                          !.items = Tail(call.items),
                          !.failed = TRUE,
                          !.exc = IF Raised(errors) THEN errors.raise[1]
                                  ELSE IF call.op = "add" \/ Len(call.items) = 1
                                  THEN "ValidationFailed" ELSE "",
                          !.pos = IF \/ Raised(errors)
                                     \/ call.op = "add"
                                     \/ Len(call.items) = 1
                                  THEN "raised" ELSE "deserialize_insert"]]
    ELSE /\ counters' = deserialize_insert(Head(call.items), counters).counters
         /\ threads' = [threads EXCEPT ![thread] =
                [@ EXCEPT !.op = call.op,
                          !.items = Tail(call.items),
                          !.docs = Append(@,
                              deserialize_insert(Head(call.items),
                                                 counters).model_as_dict),
                          !.exc = IF Len(call.items) = 1 /\ threads[thread].failed
                                  THEN "ValidationFailed" ELSE "",
                          !.pos = IF Len(call.items) > 1 THEN "deserialize_insert"
                                  ELSE IF threads[thread].failed THEN "raised"
                                  ELSE "insert"]]

\* add, add_all: validate_insert of the next item and, when it is valid,
\* deserialize_insert with its find_one_and_update on the counters
ThreadDeserializeInsert(thread) ==
    \E call \in CallsAt(thread, {"add", "add_all"}, "deserialize_insert") :
        /\ ThreadValidatedInsert(thread, call,
               CRUDModel_validate_insert(cls, Head(call.items)))
        /\ UNCHANGED <<model, collection, next_id, uidx, last, pc,
                       counter_element, applied, returned, validated,
                       constructed>>

\* add, add_all: insert_one / insert_many of the deserialized documents
\* with the _id the driver gives them; a duplicate key stops the insertion
ThreadInsert(thread) ==
    \E inserted \in {insert_many(collection,
                        [i \in 1..Len(threads[thread].docs) |->
                            Put(threads[thread].docs[i], "_id",
                                OID(next_id + i - 1))])} :
        /\ threads[thread].pos = "insert"
        /\ collection' = inserted.collection
        /\ next_id' = next_id + Len(threads[thread].docs)
        /\ threads' = [threads EXCEPT ![thread] =
               [@ EXCEPT !.pos = IF inserted.BulkWriteError THEN "raised"
                                 ELSE "returned",
                         !.exc = IF inserted.BulkWriteError
                                 THEN "ValidationFailed" ELSE "",
                         !.ret = IF inserted.BulkWriteError THEN None
                                 ELSE L([i \in 1..Len(threads[thread].docs) |->
                                     D(CRUDModel_serialize(cls,
                                         Put(threads[thread].docs[i], "_id",
                                             OID(next_id + i - 1))))])]]
        /\ UNCHANGED <<model, counters, uidx, last, pc, counter_element,
                       applied, returned, validated, constructed>>

\* remove raises on an invalid filter, else it makes the one delete_many
\* with the deserialized filter
ThreadValidatedQuery(thread, call, errors) ==
    IF Raised(errors) \/ DOMAIN errors # {}
    THEN /\ collection' = collection
         /\ threads' = [threads EXCEPT ![thread] =
                [@ EXCEPT !.op = call.op, !.items = call.items,
                          !.pos = "raised", !.exc = "ValidationFailed"]]
    ELSE \E filter \in {CRUDModel_deserialize_query(cls, call.items[1])} :
            /\ collection' = delete_many(collection, filter)
            /\ threads' = [threads EXCEPT ![thread] =
                   [@ EXCEPT !.op = call.op, !.items = call.items,
                             !.fields = filter, !.pos = "returned",
                             !.ret = I(count(collection, filter))]]

\* remove: validate_query, deserialize_query and the one delete_many
ThreadRemove(thread) ==
    \E call \in CallsAt(thread, {"remove"}, "") :
        /\ ThreadValidatedQuery(thread, call,
               CRUDModel_validate_query(cls, call.items[1]))
        /\ UNCHANGED <<model, counters, next_id, uidx, last, pc,
                       counter_element, applied, returned, validated,
                       constructed>>

\* update raises on an invalid mapping, else _update_one looks the record
\* up with the primary keys of the deserialized fields
ThreadValidatedUpdate(thread, call, errors) ==
    IF Raised(errors) \/ DOMAIN errors # {}
    THEN threads' = [threads EXCEPT ![thread] =
             [@ EXCEPT !.op = call.op, !.items = call.items,
                       !.pos = "raised", !.exc = "ValidationFailed"]]
    ELSE \E fields \in {CRUDModel_deserialize_update(cls, call.items[1])} :
         \E previous \in {find_one(collection, _to_primary_keys_model(fields))} :
            threads' = [threads EXCEPT ![thread] =
                [@ EXCEPT !.op = call.op, !.items = call.items,
                          !.fields = fields,
                          !.keys = _to_primary_keys_model(fields),
                          !.previous = previous,
                          !.pos = IF Len(previous) > 0 THEN "update_one"
                                  ELSE "raised",
                          !.exc = IF Len(previous) > 0 THEN ""
                                  ELSE "ModelCouldNotBeFound"]]

\* update: validate_update, deserialize_update and the find_one of
\* _update_one that checks the record exists
ThreadFindOne(thread) ==
    \E call \in CallsAt(thread, {"update"}, "") :
        /\ ThreadValidatedUpdate(thread, call,
               CRUDModel_validate_update(cls, call.items[1]))
        /\ UNCHANGED <<model, collection, counters, next_id, uidx, last,
                       pc, counter_element, applied, returned, validated,
                       constructed>>

\* update: the update_one of _update_one; target is the document the $set
\* is applied to, <<>> when none matches any more
ThreadUpdateOne(thread) ==
    /\ threads[thread].pos = "update_one"
    /\ collection' = update_one(collection, threads[thread].keys,
                                threads[thread].fields)
    /\ threads' = [threads EXCEPT ![thread] =
           [@ EXCEPT !.target = find_one(collection, threads[thread].keys),
                     !.pos = "find_one"]]
    /\ UNCHANGED <<model, counters, next_id, uidx, last, pc, counter_element,
                   applied, returned, validated, constructed>>

\* update: the second find_one of _update_one and the serialized pair
ThreadFindOneAgain(thread) ==
    /\ threads[thread].pos = "find_one"
    /\ threads' = [threads EXCEPT ![thread] =
           [@ EXCEPT !.new = find_one(collection, threads[thread].keys),
                     !.pos = "returned",
                     !.ret = L(<<D(SerializeFound(threads[thread].previous)),
                                 D(SerializeFound(find_one(collection,
                                       threads[thread].keys)))>>)]]
    /\ UNCHANGED <<model, collection, counters, next_id, uidx, last, pc,
                   counter_element, applied, returned, validated, constructed>>

NextConcurrent ==
    \E thread \in 1..NumThreads :
        \/ ThreadDeserializeInsert(thread)
        \/ ThreadInsert(thread)
        \/ ThreadRemove(thread)
        \/ ThreadFindOne(thread)
        \/ ThreadUpdateOne(thread)
        \/ ThreadFindOneAgain(thread)

SpecConcurrent == InitIncrement /\ [][NextConcurrent]_vars

\* C26: with adds, add_alls and removes of concurrent clients interleaved in
\* any order on the collection of the auto-incremented model, the values of
\* the auto-incremented field held by the stored records, together with the
\* values already drawn by insertions still in flight or failed, are pairwise
\* distinct, and each is at most the current value of the counter.
C26_AutoIncrementUnique ==
    LET Assigned ==
            {<<0, i>> : i \in 1..Len(collection)}
            \cup UNION {{<<thread, i>> : i \in 1..Len(threads[thread].docs)} :
                          thread \in {t \in 1..NumThreads :
                                         threads[t].pos # "returned"}}
        Value(a) == IF a[1] = 0 THEN collection[a[2]]["key"].i
                    ELSE threads[a[1]].docs[a[2]]["key"].i
    IN  \A a \in Assigned :
           /\ "key" \in DOMAIN counters
           /\ Value(a) <= counters["key"]
           /\ \A b \in Assigned : a # b => Value(a) # Value(b)

\* an add_all failed after drawing a value, a remove has deleted a record,
\* and a record stored afterwards holds a later value
C26_Witness ==
    /\ \E failing \in 1..NumThreads :
          /\ threads[failing].pos = "raised"
          /\ Len(threads[failing].docs) > 0
          /\ Len(collection) > 0
          /\ \A i \in 1..Len(collection) :
                collection[i]["key"].i > threads[failing].docs[1]["key"].i
    /\ \E removing \in 1..NumThreads :
          /\ threads[removing].op = "remove"
          /\ threads[removing].ret = I(1)

\* C27: whenever an update interleaved with the removes and updates of other
\* clients returns normally, the new record it returns is non-empty and
\* carries every non-null value supplied to the call, and the previous
\* record it returns is the document the $set was applied to.
C27_UpdateAtomic ==
    \A thread \in 1..NumThreads :
        (threads[thread].op = "update" /\ threads[thread].pos = "returned") =>
            LET supplied == threads[thread].items[1]
                new_model_as_dict == threads[thread].ret.l[2].d
            IN  /\ DOMAIN new_model_as_dict # {}
                /\ \A key \in DOMAIN supplied :
                      ~IsNone(supplied[key]) =>
                          /\ key \in DOMAIN new_model_as_dict
                          /\ new_model_as_dict[key] = supplied[key]
                /\ threads[thread].previous = threads[thread].target

\* C28: on a model with two fields of the unique index, after successful
\* adds no two stored records hold the same value in any one of these
\* fields.
C28_EachUniqueFieldUnique ==
    (Len(uidx) >= 2 /\ last.op = "add" /\ last.exc = "") =>
        \A i \in 1..Len(collection) : \A j \in 1..Len(collection) :
            \A k \in 1..Len(uidx) :
                i # j => Get(collection[i], uidx[k]) # Get(collection[j], uidx[k])

\* C28 as amended: the fields of the unique index are unique in combination:
\* on a model with two or more of them no two stored records hold the same
\* values in all of these fields, while two records may share the value of
\* one of them.
C28_UniqueInCombination ==
    Len(uidx) >= 2 =>
        \A i \in 1..Len(collection) : \A j \in 1..Len(collection) :
            i # j => \E k \in 1..Len(uidx) :
                        Get(collection[i], uidx[k]) # Get(collection[j], uidx[k])

\* a successful add has stored a second record with the key of the first
\* and another unique_value
C28_Witness ==
    /\ Len(uidx) >= 2
    /\ last.op = "add"
    /\ last.exc = ""
    /\ Len(collection) = 2
    /\ collection[1]["key"] = collection[2]["key"]
    /\ collection[1]["unique_value"] # collection[2]["unique_value"]

\* C29: whatever mapping update is given and whether it succeeds or fails,
\* the stored records hold the same primary-key values after the call as
\* before it, counted with their multiplicity.
C29_UpdateKeepsPrimaryKeys ==
    last.op = "update" =>
        LET KeysOf(documents) ==
                {PrimaryKeyOf(documents[i]) : i \in 1..Len(documents)}
            Times(documents, primary_key) ==
                Cardinality({i \in 1..Len(documents) :
                                PrimaryKeyOf(documents[i]) = primary_key})
        IN  \A primary_key \in KeysOf(last.before) \cup KeysOf(collection) :
               Times(last.before, primary_key) = Times(collection, primary_key)

====
